---- MODULE Spec2Model ----
(***************************************************************************)
(* A model of mari: a memory-mapped, append-only, versioned ordered array  *)
(* mapped trie with copy-on-write transactions.                            *)
(*                                                                         *)
(* The mapped file is modelled as the three metadata words (version, root  *)
(* offset, next start offset) plus the serialized nodes keyed by the byte  *)
(* offset at which each one starts; node sizes and offsets are the real    *)
(* ones of the on-disk layout.  In-memory nodes are records with value     *)
(* semantics; a nil child pointer is the record NilINode.                  *)
(***************************************************************************)
EXTENDS Integers, Sequences, FiniteSets, TLC

\* ------------------------------------------------------------- constants
\* Layout constants of the serialized file (Types.go).
InitRootOffset == 24
NodeChildrenIdx == 64
NodeKeyIdx == 26
NodeChildPtrSize == 8
MaxResize == 1000000000

\* ---------------------------------------------------------------- bounds
\* Longest key the trie workload writes.
MaxKeyLen == 3
\* Number of distinct one-byte values.
NumVals == 2
\* Operations one single-threaded session executes.
MaxOps == 3
\* Update transactions the concurrent writers run in all.
MaxTx == 2
\* Update transactions that fill the store before it is scanned.
MaxLoads == 2
\* Largest number of results asked of Iterate.
MaxCount == 3
\* Update transactions run beside the compactor.
MaxCompactTx == 4
\* Operating system calls of the compactor that fail, in all.
MaxFaults == 1
\* Update transactions run before and after a close or a halt.
MaxDurTx == 2
\* Length of a page of the file, the unit in which the kernel writes the
\* mapping back (scaled down like InitialMapSize).
PageSize == 128
\* Length of the map a new file is given (allocateSize of an empty map,
\* scaled down so that the workloads fill it).
InitialMapSize == 256

\* The key bytes used by the workloads: 'a' and 'b' (both in bitmap word 3).
Alphabet == {97, 98}

Vals == 1..NumVals

RECURSIVE SeqsOfLen(_)
SeqsOfLen(n) ==
  IF n = 0 THEN {<<>>}
  ELSE {Append(s, b) : s \in SeqsOfLen(n - 1), b \in Alphabet}

Keys == UNION {SeqsOfLen(n) : n \in 1..MaxKeyLen}

\* ------------------------------------------------------ in-memory nodes
\* MariLNode: version, key, value.  value 0 with an empty key is the empty leaf.
LNode(version, key, value) == [version |-> version, key |-> key, value |-> value]

\* newLeafNode(nil, nil, version) and the leaf of a reset pool node.
EmptyLeaf(version) == LNode(version, <<>>, 0)

\* A nil *MariINode, as left in a children table by a copy that is too short.
NilINode ==
  [version |-> -1, startOffset |-> 0, bitmap |-> {}, leaf |-> EmptyLeaf(0),
   children |-> <<>>]

IsNil(n) == n.version = -1

\* A node taken from the pool (resetINode) and tagged with a version.
newInternalNode(version) ==
  [version |-> version, startOffset |-> 0, bitmap |-> {},
   leaf |-> EmptyLeaf(0), children |-> <<>>]

\* A child entry that forgets the offset it was read from.
ChildStubNoOffset(offset) ==
  [version |-> 0, startOffset |-> 0, bitmap |-> {},
   leaf |-> EmptyLeaf(0), children |-> <<>>]

\* deserializeINode's child entry: &MariINode{ startOffset: offset }.
ChildStub(offset) ==
  [version |-> 0, startOffset |-> offset, bitmap |-> {},
   leaf |-> EmptyLeaf(0), children |-> <<>>]

\* copyINode: a pool node that receives version, bitmap, leaf and children;
\* its startOffset stays the pool's 0.
copyINode(node) == [node EXCEPT !.startOffset = 0]

\* --------------------------------------------------------- bitmap utils
\* A [8]uint32 bitmap is the set of its set indices in 0..255.
isBitSet(bitmap, index) == index \in bitmap

\* setBit is an xor: it flips the bit.
setBit(bitmap, index) ==
  IF index \in bitmap THEN bitmap \ {index} ELSE bitmap \cup {index}

populationCount(bitmap) == Cardinality(bitmap)

WordCount(bitmap, w) == Cardinality({i \in bitmap : i \div 32 = w})

RECURSIVE SumWords(_, _)
\* popcount of words 0..w of the bitmap (the fallthrough chain of the switch).
SumWords(bitmap, w) ==
  IF w < 0 THEN 0 ELSE WordCount(bitmap, w) + SumWords(bitmap, w - 1)

\* getPosition: subBitmapIndex is a byte, so subBitmapIndex - 1 wraps to 255
\* for word 0 (no case of the switch matches) and is 0 for word 1 (the guard
\* "> 0" fails): the preceding words are counted only from word 2 on.
getPosition(bitmap, index) ==
  LET subBitmapIndex == index \div 32
      indexInSubBitmap == index % 32
      minusOne == (subBitmapIndex - 1 + 256) % 256
      preceding == IF minusOne > 0 /\ minusOne <= 6
                   THEN SumWords(bitmap, minusOne) ELSE 0
      isolated == {i \in bitmap : i \div 32 = subBitmapIndex
                                  /\ i % 32 < indexInSubBitmap}
  IN preceding + Cardinality(isolated)

\* The element Go's copy leaves at 1-based slot i of a table of some size when
\* src (a sequence) is copied to the slots starting at 1-based slot from.
CopiedAt(src, from, i) ==
  IF i >= from /\ i - from + 1 <= Len(src) THEN src[i - from + 1] ELSE NilINode

\* extendTable(orig, bitmap, pos, newNode); pos is 0-based.  "panic" when a
\* slice bound or the index is out of range.
extendTable(orig, bitmap, pos, newNode) ==
  LET tableSize == populationCount(bitmap) IN
  IF pos > Len(orig) \/ pos >= tableSize
  THEN [st |-> "panic", tab |-> <<>>]
  ELSE [st |-> "ok",
        tab |-> [i \in 1..tableSize |->
                   IF i <= pos THEN orig[i]
                   ELSE IF i = pos + 1 THEN newNode
                   ELSE CopiedAt(SubSeq(orig, pos + 1, Len(orig)), pos + 2, i)]]

\* shrinkTable(orig, bitmap, pos); pos is 0-based.
shrinkTable(orig, bitmap, pos) ==
  LET tableSize == populationCount(bitmap) IN
  IF pos > tableSize \/ pos + 1 > Len(orig)
  THEN [st |-> "panic", tab |-> <<>>]
  ELSE [st |-> "ok",
        tab |-> [i \in 1..tableSize |->
                   IF i <= pos THEN orig[i]
                   ELSE CopiedAt(SubSeq(orig, pos + 2, Len(orig)), pos + 1, i)]]

\* ------------------------------------------------------- the mapped file
\* A memory image mm is [len, meta, nodes]: len(mMap), the metadata words
\* [v, r, e] and the serialized nodes by start offset.  A serialized node:
SINode(version, startOffset, endOffset, bitmap, leafOffset, children) ==
  [kind |-> "i", version |-> version, startOffset |-> startOffset,
   endOffset |-> endOffset, bitmap |-> bitmap, leafOffset |-> leafOffset,
   children |-> children, key |-> <<>>, value |-> 0]

SLNode(version, startOffset, endOffset, key, value) ==
  [kind |-> "l", version |-> version, startOffset |-> startOffset,
   endOffset |-> endOffset, bitmap |-> {}, leafOffset |-> 0,
   children |-> <<>>, key |-> key, value |-> value]

\* A value occupies one byte; the empty leaf has none.
ValLen(value) == IF value = 0 THEN 0 ELSE 1

\* determineEndOffsetINode
determineEndOffsetINode(startOffset, bitmap) ==
  startOffset + NodeChildrenIdx + populationCount(bitmap) * NodeChildPtrSize - 1

\* determineEndOffsetLNode
determineEndOffsetLNode(startOffset, key, value) ==
  startOffset + NodeKeyIdx + Len(key) + ValLen(value) - 1

RECURSIVE BitsFrom(_, _)
BitsFrom(n, b) ==
  IF n = 0 THEN {}
  ELSE (IF n % 2 = 1 THEN {b} ELSE {}) \cup BitsFrom(n \div 2, b + 1)

\* The positions of the set bits of a little-endian unsigned integer.
Bits(n) == BitsFrom(n, 0)

\* readINodeFromMemMap(0): an in-memory node that was never serialized has
\* startOffset 0, and reading "the node at 0" decodes the metadata header and
\* the bytes of the node at offset 24 as if they were a node.  Bytes 24..55 are
\* read as the bitmap (the version, startOffset and endOffset words and bitmap
\* words 0 and 1 of the node at 24), bytes 56..63 (its bitmap words 2 and 3) as
\* the leaf offset; the leaf read at offset 0 takes its key length from bytes
\* 24..25, the version of the node at 24, which is 0, so its key is empty and
\* its value (written -1 here) is the rest of the file.  A non-zero leaf offset
\* has a bit of word 3 set for the keys used here and lies beyond the map.
\* No index of this bitmap is a byte of Alphabet, so its children (further
\* header bytes) are never followed.
ReadAtZero(mm) ==
  LET n24 == mm.nodes[InitRootOffset]
      bm == {64 + b : b \in Bits(n24.startOffset)}
            \cup {128 + b : b \in Bits(n24.endOffset)}
            \cup {192 + i : i \in {j \in n24.bitmap : j < 32}}
            \cup {192 + i : i \in {j \in n24.bitmap : j >= 32 /\ j < 64}}
  IN IF {j \in n24.bitmap : j >= 64 /\ j < 128} # {}
     THEN [st |-> "err", node |-> NilINode]
     ELSE [st |-> "ok",
           node |-> [version |-> mm.meta.v, startOffset |-> mm.meta.r,
                     bitmap |-> bm, leaf |-> LNode(mm.meta.v, <<>>, -1),
                     children |-> <<>>]]

\* readINodeFromMemMap: decode the internal node at startOffset and its leaf.
\* A slice of an empty map panics; the deferred recover turns it into an error.
\* An offset that starts no internal node does not decode to a node of the trie.
readINodeFromMemMap(mm, startOffset) ==
  IF mm.len = 0 THEN [st |-> "err", node |-> NilINode]
  ELSE IF startOffset = 0 THEN ReadAtZero(mm)
  ELSE IF startOffset \in DOMAIN mm.nodes /\ mm.nodes[startOffset].kind = "i"
          /\ mm.nodes[startOffset].leafOffset \in DOMAIN mm.nodes
  THEN LET sn == mm.nodes[startOffset]
           sl == mm.nodes[sn.leafOffset]
       IN [st |-> "ok",
           node |-> [version |-> sn.version, startOffset |-> sn.startOffset,
                     bitmap |-> sn.bitmap,
                     leaf |-> LNode(sl.version, sl.key, sl.value),
                     children |-> [i \in 1..Len(sn.children) |->
                                     ChildStub(sn.children[i])]]]
  ELSE [st |-> "err", node |-> NilINode]

\* getChildNode: a child of the transaction's version is the node of the path
\* itself; any other child is read from the map.
getChildNode(mm, childOffset, version) ==
  IF childOffset.version = version
  THEN [st |-> "ok", node |-> childOffset]
  ELSE readINodeFromMemMap(mm, childOffset.startOffset)

\* ------------------------------------------------------------ trie core
\* getIndexForLevel
getIndexForLevel(key, level) == key[level + 1]

\* Results of the recursive operations: st is "ok", "err" (an error value is
\* returned) or "panic" (an unrecovered run-time panic), node the node the
\* caller's pointer holds afterwards.
Res(st, node) == [st |-> st, node |-> node]

RECURSIVE putRecursive(_, _, _, _, _)
RECURSIVE putNewINode(_, _, _, _, _, _)

\* The closure putNewINode of putRecursive: flip the bit of currIdx, build a
\* new internal node holding (uKey, uVal) one level down and insert it at the
\* position of currIdx.
putNewINode(mm, node, currIdx, uKey, uVal, level) ==
  LET bitmap == setBit(node.bitmap, currIdx)
      pos == getPosition(bitmap, currIdx)
      sub == putRecursive(mm, newInternalNode(node.version), uKey, uVal, level + 1)
      ext == extendTable(node.children, bitmap, pos, sub.node)
  IN IF sub.st # "ok" THEN Res(sub.st, node)
     ELSE IF ext.st # "ok" THEN Res("panic", node)
     ELSE Res("ok", [node EXCEPT !.bitmap = bitmap, !.children = ext.tab])

\* Descend into the existing child at the position of idx with (uKey, uVal).
PutIntoChild(mm, node, idx, uKey, uVal, level) ==
  LET pos == getPosition(node.bitmap, idx) IN
  IF pos + 1 > Len(node.children) \/ IsNil(node.children[pos + 1])
  THEN Res("panic", node)
  ELSE LET got == getChildNode(mm, node.children[pos + 1], node.version) IN
       IF got.st # "ok" THEN Res("err", node)
       ELSE LET childNode == [got.node EXCEPT !.version = node.version]
                sub == putRecursive(mm, childNode, uKey, uVal, level + 1)
            IN IF sub.st # "ok" THEN Res(sub.st, node)
               ELSE Res("ok", [node EXCEPT !.children[pos + 1] = sub.node])

\* The leaf a put leaves when the node's own leaf already holds the key.
SameKeyLeaf(leaf, key, value, version) ==
  IF leaf.value # value THEN LNode(version, key, value) ELSE leaf

putRecursive(mm, currNode, key, value, level) ==
  LET copy == copyINode(currNode)
      nodeCopy == [copy EXCEPT !.leaf.version = copy.version]
      version == nodeCopy.version
      currentLeaf == nodeCopy.leaf
      withNew == [nodeCopy EXCEPT !.leaf = LNode(version, key, value)]
  IN
  IF Len(key) = level
  THEN IF currentLeaf.key = key
       THEN Res("ok", [nodeCopy EXCEPT
                         !.leaf = SameKeyLeaf(currentLeaf, key, value, version)])
       ELSE IF Len(currentLeaf.key) > Len(key)
                /\ ~ isBitSet(nodeCopy.bitmap, getIndexForLevel(currentLeaf.key, level))
            THEN putNewINode(mm, withNew, getIndexForLevel(currentLeaf.key, level),
                             currentLeaf.key, currentLeaf.value, level)
            ELSE Res("ok", withNew)
  ELSE
  LET index == getIndexForLevel(key, level) IN
  IF isBitSet(nodeCopy.bitmap, index)
  THEN PutIntoChild(mm, nodeCopy, index, key, value, level)
  ELSE IF level = 0
  THEN putNewINode(mm, nodeCopy, index, key, value, level)
  ELSE
  LET popCount == populationCount(nodeCopy.bitmap) IN
  IF currentLeaf.key = key
  THEN Res("ok", [nodeCopy EXCEPT
                    !.leaf = SameKeyLeaf(currentLeaf, key, value, version)])
  ELSE IF Len(currentLeaf.key) = 0 /\ popCount = 0
  THEN Res("ok", withNew)
  ELSE IF Len(currentLeaf.key) = 0 /\ popCount > 0
  THEN putNewINode(mm, nodeCopy, index, key, value, level)
  ELSE IF Len(key) > Len(currentLeaf.key) /\ Len(currentLeaf.key) > 0
  THEN putNewINode(mm, nodeCopy, index, key, value, level)
  ELSE IF Len(currentLeaf.key) > Len(key)
  THEN IF ~ isBitSet(nodeCopy.bitmap, getIndexForLevel(currentLeaf.key, level))
       THEN putNewINode(mm, withNew, getIndexForLevel(currentLeaf.key, level),
                        currentLeaf.key, currentLeaf.value, level)
       ELSE Res("ok", withNew)
  ELSE
  LET emptied == [nodeCopy EXCEPT !.leaf = EmptyLeaf(version)]
      first == putNewINode(mm, emptied, index, key, value, level)
      newIdx == getIndexForLevel(currentLeaf.key, level)
  IN IF first.st # "ok" THEN first
     ELSE IF ~ isBitSet(first.node.bitmap, newIdx)
     THEN putNewINode(mm, first.node, newIdx, currentLeaf.key, currentLeaf.value, level)
     ELSE PutIntoChild(mm, first.node, newIdx, currentLeaf.key, currentLeaf.value, level)

\* A lookup result: st as above, found whether a key/value pair is returned.
GetRes(st, found, leaf) ==
  [st |-> st, found |-> found, version |-> leaf.version, key |-> leaf.key,
   value |-> leaf.value]

RECURSIVE getRecursive(_, _, _, _)
getRecursive(mm, currNode, key, level) ==
  IF key = currNode.leaf.key THEN GetRes("ok", TRUE, currNode.leaf)
  ELSE IF Len(key) = level THEN GetRes("ok", FALSE, EmptyLeaf(0))
  ELSE
  LET index == getIndexForLevel(key, level) IN
  IF ~ isBitSet(currNode.bitmap, index) THEN GetRes("ok", FALSE, EmptyLeaf(0))
  ELSE
  LET pos == getPosition(currNode.bitmap, index) IN
  IF pos + 1 > Len(currNode.children) \/ IsNil(currNode.children[pos + 1])
  THEN GetRes("panic", FALSE, EmptyLeaf(0))
  ELSE LET got == readINodeFromMemMap(mm, currNode.children[pos + 1].startOffset) IN
       IF got.st # "ok" THEN GetRes("err", FALSE, EmptyLeaf(0))
       ELSE getRecursive(mm, got.node, key, level + 1)

RECURSIVE deleteRecursive(_, _, _, _)
deleteRecursive(mm, currNode, key, level) ==
  LET nodeCopy == copyINode(currNode)
      version == nodeCopy.version
  IN
  IF nodeCopy.leaf.key = key
  THEN Res("ok", [nodeCopy EXCEPT !.leaf = EmptyLeaf(version)])
  ELSE IF Len(key) = level THEN Res("ok", currNode)
  ELSE
  LET index == getIndexForLevel(key, level)
      pos == getPosition(nodeCopy.bitmap, index)
  IN
  IF pos + 1 > Len(nodeCopy.children) \/ IsNil(nodeCopy.children[pos + 1])
  THEN Res("panic", currNode)
  ELSE
  LET got == getChildNode(mm, nodeCopy.children[pos + 1], version) IN
  IF got.st # "ok" THEN Res("err", currNode)
  ELSE
  LET childNode == [got.node EXCEPT !.version = version]
      sub == deleteRecursive(mm, childNode, key, level + 1)
      withChild == [nodeCopy EXCEPT !.children[pos + 1] = sub.node]
  IN
  IF sub.st # "ok" THEN Res(sub.st, currNode)
  ELSE IF sub.node.leaf.version = version /\ populationCount(sub.node.bitmap) = 0
  THEN LET bitmap == setBit(withChild.bitmap, index)
           shr == shrinkTable(withChild.children, bitmap, pos)
       IN IF shr.st # "ok" THEN Res("panic", currNode)
          ELSE Res("ok", [withChild EXCEPT !.bitmap = bitmap, !.children = shr.tab])
  ELSE Res("ok", withChild)

\* ---------------------------------------------------------- serialization
RECURSIVE serializeRecursive(_, _)
RECURSIVE SerializeChildren(_, _, _, _, _)

\* The loop over node.children of serializeRecursive, from child i on:
\* a child of another version contributes its recorded offset, a child of the
\* node's version is laid out at nextStartOffset and serialized recursively.
\* Yields the child offsets, the records of the subtrees and the next offset.
SerializeChildren(node, i, nextStartOffset, offsets, recs) ==
  IF i > Len(node.children)
  THEN [st |-> "ok", offsets |-> offsets, recs |-> recs, next |-> nextStartOffset]
  ELSE LET child == node.children[i] IN
       IF IsNil(child)
       THEN [st |-> "panic", offsets |-> offsets, recs |-> recs,
             next |-> nextStartOffset]
       ELSE IF child.version # node.version
       THEN SerializeChildren(node, i + 1, nextStartOffset,
                              Append(offsets, child.startOffset), recs)
       ELSE LET sub == serializeRecursive(child, nextStartOffset) IN
            IF sub.st # "ok"
            THEN [st |-> sub.st, offsets |-> offsets, recs |-> recs,
                  next |-> nextStartOffset]
            ELSE SerializeChildren(node, i + 1, nextStartOffset + sub.size,
                                   Append(offsets, nextStartOffset),
                                   recs \cup sub.recs)

\* serializeRecursive: the internal node at offset, its child offsets, its
\* leaf right behind them, then the subtrees of the path.  size is the length
\* of the byte string, recs the serialized nodes it holds.
serializeRecursive(node, offset) ==
  LET endOffset == determineEndOffsetINode(offset, node.bitmap)
      leafStart == endOffset + 1
      leafEnd == determineEndOffsetLNode(leafStart, node.leaf.key, node.leaf.value)
      kids == SerializeChildren(node, 1, leafEnd + 1, <<>>, {})
      inode == SINode(node.version, offset, endOffset, node.bitmap, leafStart,
                      kids.offsets)
      lnode == SLNode(node.leaf.version, leafStart, leafEnd, node.leaf.key,
                      node.leaf.value)
  IN [st |-> kids.st, recs |-> {inode, lnode} \cup kids.recs,
      size |-> kids.next - offset]

\* serializePathToMemMap
serializePathToMemMap(root, nextOffsetInMMap) ==
  serializeRecursive(root, nextOffsetInMMap)

\* writeNodesToMemMap: copy the serialized nodes into the map.
writeNodesToMemMap(nodes, recs) ==
  LET offs == {r.startOffset : r \in recs} IN
  [o \in DOMAIN nodes \cup offs |->
     IF o \in offs THEN CHOOSE r \in recs : r.startOffset = o ELSE nodes[o]]

\* initRoot and initMeta: the version 0 root at InitRootOffset with its empty
\* leaf, and the metadata pointing at it.
InitNodes ==
  LET ser == serializeRecursive(newInternalNode(0), InitRootOffset) IN
  writeNodesToMemMap(<<>>, ser.recs)

InitMeta ==
  [v |-> 0, r |-> InitRootOffset,
   e |-> InitRootOffset + serializeRecursive(newInternalNode(0), InitRootOffset).size]

\* resizeMmap's allocateSize.
allocateSize(len) ==
  IF len = 0 THEN InitialMapSize
  ELSE IF len >= MaxResize THEN len + MaxResize
  ELSE len * 2

RECURSIVE Grown(_, _)
\* The map length after as many resizes as it takes for offset to fit.
Grown(len, offset) == IF offset < len THEN len ELSE Grown(allocateSize(len), offset)

\* ----------------------------------------------------------------- views
\* ViewTx followed by tx.Get(key): read the root at the root offset, look up.
ViewGet(mm, key) ==
  LET root == readINodeFromMemMap(mm, mm.meta.r) IN
  IF root.st # "ok" THEN GetRes("err", FALSE, EmptyLeaf(0))
  ELSE getRecursive(mm, root.node, key, 0)

\* What a lookup tells its caller: the value, 0 for "no such key", -1 for an
\* error, -2 for a crash.
Outcome(g) ==
  IF g.st = "ok" THEN (IF g.found THEN g.value ELSE 0)
  ELSE IF g.st = "err" THEN -1 ELSE -2

\* The key/value pairs a view transaction reads from the image mm.
Contents(mm) == [k \in Keys |-> Outcome(ViewGet(mm, k))]

\* A complete run of exclusiveWriteMmap with no other process interleaved,
\* after the resizes the path needs.
Published(mm, path) ==
  LET ser == serializePathToMemMap(path, mm.meta.e)
      next == mm.meta.e + ser.size
  IN IF ser.st # "ok" THEN [st |-> ser.st, mm |-> mm]
     ELSE [st |-> "ok",
           mm |-> [len |-> Grown(mm.len, next),
                   meta |-> [v |-> path.version, r |-> mm.meta.e, e |-> next],
                   nodes |-> writeNodesToMemMap(mm.nodes, ser.recs)]]

\* The pairs a view would read if the transaction's tree were published now.
TxContents(mm, path) ==
  LET pub == Published(mm, path) IN
  IF pub.st = "ok" THEN Contents(pub.mm) ELSE [k \in Keys |-> -2]

\* ================================================================ state
VARIABLES
  meta,        \* the metadata words of the file: [v, r, e]
  nodes,       \* the serialized nodes of the file by start offset
  mapLen,      \* len(mMap); 0 while the file is unmapped
  isResizing,  \* the isResizing flag
  crashed,     \* an unrecovered panic has ended the program
  sess,        \* single-threaded session: its open update transaction
  lastOp,      \* single-threaded session: the last operation and what it did
  ghost,       \* single-threaded session: the puts and deletes as a plain map
  compactAtVersion, \* the version at which the publisher asks for compaction
  pc,          \* concurrent run: where each UpdateTx goroutine stands
  wloc,        \* concurrent run: the locals of each UpdateTx goroutine
  rwLock,      \* rwResizeLock: readers holding it, writer holding / waiting
  resizer,     \* the handleResize goroutine
  view,        \* the goroutine running view transactions
  hist,        \* the publications so far, in order
  scan,        \* the last operation of the open view transaction
  comp,        \* the compactHandler goroutine and its temporary file
  disk,        \* what the storage device holds of the file, and who syncs it
  util         \* the last call of a bitmap utility: its arguments and result

vars == <<meta, nodes, mapLen, isResizing, crashed, sess, lastOp, ghost,
          compactAtVersion, pc, wloc, rwLock, resizer, view, hist, scan, comp,
          disk, util>>

\* What the steps of the writers, of handleResize and of Get leave alone.
cfgVars == <<compactAtVersion, scan, comp, disk, util>>

trieVars == <<sess, lastOp, ghost>>
concVars == <<pc, wloc, rwLock, resizer, view, hist>>

\* No bitmap utility has been called.
Util0 == [bitmap |-> {}, index |-> 0, pos |-> 0, called |-> FALSE]

\* The memory image the operations read.
MM == [len |-> mapLen, meta |-> meta, nodes |-> nodes]

fileVars == <<meta, nodes, mapLen, isResizing>>

\* initializeFile on an empty file: resizeMmap, initRoot, initMeta.
FileInit ==
  /\ meta = InitMeta
  /\ nodes = InitNodes
  /\ mapLen = InitialMapSize
  /\ isResizing = 0
  /\ crashed = FALSE

NoOp == [op |-> "none", key |-> <<>>, val |-> 0, st |-> "ok", result |-> 0,
         before |-> [k \in Keys |-> 0], after |-> [k \in Keys |-> 0]]

\* --------------------------------------------------------- workloads
Put(key, val) == [op |-> "put", key |-> key, val |-> val]
Del(key) == [op |-> "del", key |-> key, val |-> 0]
\* The body returns an error of its own.
Fail == [op |-> "fail", key |-> <<>>, val |-> 0]

\* The transaction bodies the concurrent writers choose from.
Bodies ==
  { <<Put(<<97>>, 1)>>,
    <<Put(<<97>>, 2)>>,
    <<Put(<<97, 97>>, 1), Put(<<97, 97, 97>>, 2)>>,
    <<Del(<<97>>)>>,
    <<Put(<<98>>, 1), Fail>> }

\* The keys the view transactions look up: those the bodies touch.
BodyKeys ==
  UNION {{b[i].key : i \in {j \in 1..Len(b) : b[j].op # "fail"}} : b \in Bodies}

Writers == {"w1", "w2"}

ZeroMap == [k \in Keys |-> 0]

\* tx.Put / tx.Delete on the transaction's root, or the body's own error.
ApplyOp(mm, node, o) ==
  IF o.op = "put" THEN putRecursive(mm, node, o.key, o.val, 0)
  ELSE IF o.op = "del" THEN deleteRecursive(mm, node, o.key, 0)
  ELSE Res("err", node)

RECURSIVE RunBody(_, _, _, _)
\* The first n operations of body, in order, on the tree with root node; the
\* body stops at the first operation that fails.
RunBody(mm, node, body, n) ==
  IF n = 0 THEN Res("ok", node)
  ELSE LET first == RunBody(mm, node, body, n - 1) IN
       IF first.st # "ok" THEN first ELSE ApplyOp(mm, first.node, body[n])

\* An UpdateTx that hands the path to the publisher after the first operation.
OpsRunFirstOnly(body) == 1

\* UpdateTx calls exclusiveWriteMmap after txOps has returned: every
\* operation of the body has run when the path is handed to the publisher.
OpsRun(body) == Len(body)

RECURSIVE AbsApply(_, _, _)
\* The first n operations of body on a plain key/value map.
AbsApply(map, body, n) ==
  IF n = 0 THEN map
  ELSE IF body[n].op = "fail" THEN AbsApply(map, body, n - 1)
  ELSE [AbsApply(map, body, n - 1) EXCEPT ![body[n].key] = body[n].val]

Loc0 ==
  [body |-> <<>>, done |-> 0, version |-> 0, root |-> NilINode,
   expect |-> ZeroMap, pubV |-> 0, pubR |-> 0, pubE |-> 0,
   recs |-> {}, size |-> 0, touched |-> FALSE, why |-> "none"]

View0 == [open |-> FALSE, root |-> NilINode, snap |-> ZeroMap, read |-> FALSE]

Sess0 ==
  [open |-> FALSE, root |-> NilINode, n |-> 0, inTx |-> 0, contents |-> ZeroMap]

\* No operation has been made in a view transaction.
Scan0 == [op |-> "none", a |-> <<>>, b |-> <<>>, n |-> 0, st |-> "ok", kv |-> <<>>]

\* No temporary file: its existence, its mapped length, its metadata words and
\* its serialized nodes.
NoTemp ==
  [exists |-> FALSE, len |-> 0, meta |-> [v |-> 0, r |-> 0, e |-> 0], nodes |-> <<>>]

\* compactHandler waits for its signal; the store is opened; no temporary
\* file exists.  count is the number of compactions that swapped the file,
\* result tells how the last run ended, old whether that run left the file it
\* found in place, and before what the file held when the run began.
Comp0 ==
  [pc |-> "recv", count |-> 0, faults |-> 0, opened |-> TRUE, temp |-> NoTemp,
   result |-> "none", old |-> "kept",
   before |-> [meta |-> [v |-> 0, r |-> 0, e |-> 0], nodes |-> <<>>,
               contents |-> ZeroMap]]

\* The pages of a file of length len.
PagesOf(len) == 0..((len \div PageSize) - 1)

\* The file on the storage device right after a Sync of the initial store:
\* its length, its metadata words and, for each page, the next-free offset
\* the mapping had when the page was last written (hi).  pc tells whether
\* the store is open, closed or halted, flusher where handleFlush stands.
\* synced is what a view read at the last Sync, later what views read of the
\* versions published since, closed what the store held at the last Close,
\* n how many versions were published, how the way the store was last
\* opened, was what views read of the versions from the last Sync on when
\* the store was last opened.
Disk0 ==
  [pc |-> "open", flusher |-> "recv", len |-> InitialMapSize, meta |-> InitMeta,
   hi |-> [p \in PagesOf(InitialMapSize) |-> InitMeta.e],
   synced |-> ZeroMap, later |-> {}, how |-> "created",
   closed |-> [meta |-> InitMeta, nodes |-> InitNodes, contents |-> ZeroMap],
   n |-> 0, was |-> {ZeroMap}]

\* No concurrent goroutine has started.
ConcIdle ==
  /\ pc = [w \in Writers |-> "idle"]
  /\ wloc = [w \in Writers |-> Loc0]
  /\ rwLock = [readers |-> 0, writer |-> FALSE, pending |-> FALSE]
  /\ resizer = [pc |-> "recv", len |-> 0]
  /\ view = View0
  /\ hist = <<>>
  /\ scan = Scan0
  /\ comp = Comp0
  /\ disk = Disk0
  /\ util = Util0

\* ------------------------------------------- single-threaded session
\* One goroutine runs update transactions one after the other, with no other
\* goroutine active.  sess.n counts the operations executed so far, sess.inTx
\* those of the open transaction, sess.contents what a view would read if the
\* transaction's tree were published as it is.
TrieInit ==
  /\ FileInit
  /\ ConcIdle
  /\ compactAtVersion = MaxOps + 1
  /\ sess = Sess0
  /\ lastOp = NoOp
  /\ ghost = [cur |-> [k \in Keys |-> 0], committed |-> [k \in Keys |-> 0],
              anyDelete |-> FALSE]

\* UpdateTx up to the call of the body: the root of the current version is
\* read and tagged with the next version.
T_Begin ==
  /\ ~ crashed /\ ~ sess.open /\ sess.n < MaxOps /\ isResizing = 0
  /\ LET rd == readINodeFromMemMap(MM, meta.r) IN
     /\ rd.st = "ok"
     /\ LET root == [rd.node EXCEPT !.version = rd.node.version + 1] IN
        sess' = [sess EXCEPT !.open = TRUE, !.inTx = 0, !.root = root,
                             !.contents = TxContents(MM, root)]
  /\ UNCHANGED <<fileVars, crashed, lastOp, ghost, cfgVars, concVars>>

\* The effect on the session of an operation with result res: a panic ends
\* the program, an error ends the transaction unpublished.
AfterOp(res0, op, key, val, result, cur) ==
  LET res == res0
      after == IF res.st # "ok" THEN [k \in Keys |-> -2]
               ELSE IF op = "get" THEN sess.contents
               ELSE TxContents(MM, res.node)
  IN
  /\ crashed' = (res.st = "panic")
  /\ sess' = [sess EXCEPT !.open = (res.st = "ok"), !.root = res.node,
                          !.n = @ + 1, !.inTx = @ + 1, !.contents = after]
  /\ lastOp' = [op |-> op, key |-> key, val |-> val, st |-> res.st,
                result |-> result, before |-> sess.contents, after |-> after]
  /\ ghost' = IF res.st = "ok"
              THEN [ghost EXCEPT !.cur = cur, !.anyDelete = @ \/ op = "del"]
              ELSE [ghost EXCEPT !.cur = ghost.committed,
                                 !.anyDelete = @ \/ op = "del"]
  /\ UNCHANGED <<fileVars, cfgVars, concVars>>

\* tx.Put(key, value)
T_Put(key, val) ==
  /\ ~ crashed /\ sess.open /\ sess.n < MaxOps
  /\ AfterOp(putRecursive(MM, sess.root, key, val, 0), "put", key, val, 0,
             [ghost.cur EXCEPT ![key] = val])

\* tx.Delete(key)
T_Delete(key) ==
  /\ ~ crashed /\ sess.open /\ sess.n < MaxOps
  /\ AfterOp(deleteRecursive(MM, sess.root, key, 0), "del", key, 0, 0,
             [ghost.cur EXCEPT ![key] = 0])

\* tx.Get(key, nil) inside the update transaction.
T_Get(key) ==
  /\ ~ crashed /\ sess.open /\ sess.n < MaxOps
  /\ LET g == getRecursive(MM, sess.root, key, 0) IN
     AfterOp(Res(g.st, sess.root), "get", key, 0, Outcome(g), ghost.cur)

\* The body returns nil: exclusiveWriteMmap publishes the path (after the
\* resizes and retries a full map asks for, which rebuild the same path).
T_Commit ==
  /\ ~ crashed /\ sess.open /\ sess.inTx > 0
  /\ LET pub == Published(MM, sess.root) IN
     /\ crashed' = (pub.st # "ok")
     /\ meta' = pub.mm.meta
     /\ nodes' = pub.mm.nodes
     /\ mapLen' = pub.mm.len
  /\ sess' = [sess EXCEPT !.open = FALSE, !.root = NilINode]
  /\ ghost' = [ghost EXCEPT !.committed = ghost.cur]
  /\ UNCHANGED <<isResizing, lastOp, cfgVars, concVars>>

TrieNext ==
  \/ T_Begin
  \/ \E k \in Keys, v \in Vals : T_Put(k, v)
  \/ \E k \in Keys : T_Delete(k)
  \/ \E k \in Keys : T_Get(k)
  \/ T_Commit

SpecTrie == TrieInit /\ [][TrieNext]_vars

\* ------------------------------------------------------ concurrent run
\* Writers run UpdateTx concurrently while one goroutine runs view
\* transactions and handleResize waits for its signal.  Every access to the
\* metadata words, the flag, the lock or the channel is a step of its own.
Init ==
  /\ FileInit
  /\ ConcIdle
  /\ compactAtVersion = MaxTx + 1
  /\ sess = Sess0
  /\ lastOp = NoOp
  /\ ghost = [cur |-> ZeroMap, committed |-> ZeroMap, anyDelete |-> FALSE]

Goto(w, where) == pc' = [pc EXCEPT ![w] = where]

SetLoc(w, loc) == wloc' = [wloc EXCEPT ![w] = loc]

\* exclusiveWriteMmap returns (false, nil): UpdateTx will unlock and retry.
Refuse(w, why) ==
  /\ Goto(w, "runlock")
  /\ SetLoc(w, [wloc[w] EXCEPT !.why = why, !.recs = {}, !.size = 0])

RECURSIVE TxCalls(_)
\* The calls of UpdateTx made so far by the writers in W.
TxCalls(W) ==
  IF W = {} THEN 0
  ELSE LET w == CHOOSE x \in W : TRUE IN
       wloc[w].done + (IF pc[w] = "idle" THEN 0 ELSE 1) + TxCalls(W \ {w})

\* A goroutine calls UpdateTx with one of the bodies.
W_Start(w, body) ==
  /\ ~ crashed /\ pc[w] = "idle" /\ TxCalls(Writers) < MaxTx
  /\ Goto(w, "spin")
  /\ SetLoc(w, [Loc0 EXCEPT !.body = body, !.done = wloc[w].done])
  /\ UNCHANGED <<fileVars, crashed, trieVars, cfgVars, rwLock, resizer,
                 view, hist>>

\* for atomic.LoadUint32(&IsResizing) == 1 { runtime.Gosched() }
W_Spin(w) ==
  /\ ~ crashed /\ pc[w] = "spin" /\ isResizing = 0
  /\ Goto(w, "rlock")
  /\ UNCHANGED <<fileVars, crashed, trieVars, cfgVars, wloc, rwLock,
                 resizer, view, hist>>

\* RWResizeLock.RLock(): blocks while a writer holds or waits for the lock.
W_RLock(w) ==
  /\ ~ crashed /\ pc[w] = "rlock" /\ ~ rwLock.writer /\ ~ rwLock.pending
  /\ rwLock' = [rwLock EXCEPT !.readers = @ + 1]
  /\ Goto(w, "loadV")
  /\ UNCHANGED <<fileVars, crashed, trieVars, cfgVars, wloc, resizer,
                 view, hist>>

\* loadMetaVersion; on an error UpdateTx returns with the lock still held.
W_LoadV(w) ==
  /\ ~ crashed /\ pc[w] = "loadV"
  /\ IF mapLen = 0
     THEN /\ Goto(w, "idle")
          /\ SetLoc(w, [wloc[w] EXCEPT !.done = @ + 1, !.why = "error"])
     ELSE /\ Goto(w, "recheck")
          /\ SetLoc(w, [wloc[w] EXCEPT !.version = meta.v])
  /\ UNCHANGED <<fileVars, crashed, trieVars, cfgVars, rwLock, resizer,
                 view, hist>>

\* if version == atomic.LoadUint64(versionPtr)
W_Recheck(w) ==
  /\ ~ crashed /\ pc[w] = "recheck"
  /\ IF wloc[w].version = meta.v THEN Goto(w, "loadRoot") ELSE Goto(w, "runlock")
  /\ UNCHANGED <<fileVars, crashed, trieVars, cfgVars, wloc, rwLock,
                 resizer, view, hist>>

\* An UpdateTx that goes on to publish when the body has returned an error.
UpdateErrIgnored(st) == "ok"

\* updateErr := txOps(transaction); if updateErr != nil { return updateErr }
UpdateErr(st) == st

\* loadMetaRootOffset, readINodeFromMemMap, the version of the copy, and the
\* body, which works on private nodes and on nodes of the file that never
\* change.  A read error unlocks and returns; an error of the body returns
\* with the lock held; a panic ends the program.
W_LoadRoot(w) ==
  /\ ~ crashed /\ pc[w] = "loadRoot"
  /\ LET rd == readINodeFromMemMap(MM, meta.r)
         root == [rd.node EXCEPT !.version = rd.node.version + 1]
         run == RunBody(MM, root, wloc[w].body, OpsRun(wloc[w].body))
         full == RunBody(MM, root, wloc[w].body, Len(wloc[w].body))
     IN IF rd.st # "ok"
        THEN /\ Goto(w, "idle")
             /\ SetLoc(w, [wloc[w] EXCEPT !.done = @ + 1, !.why = "error"])
             /\ rwLock' = [rwLock EXCEPT !.readers = @ - 1]
             /\ UNCHANGED crashed
        ELSE IF run.st = "panic"
        THEN /\ crashed' = TRUE
             /\ UNCHANGED <<pc, wloc, rwLock>>
        ELSE IF UpdateErr(run.st) = "err"
        THEN /\ Goto(w, "idle")
             /\ SetLoc(w, [wloc[w] EXCEPT !.done = @ + 1, !.why = "error"])
             /\ UNCHANGED <<crashed, rwLock>>
        ELSE /\ Goto(w, "pubResizing")
             /\ SetLoc(w, [wloc[w] EXCEPT !.root = run.node,
                                          !.expect = TxContents(MM, full.node)])
             /\ UNCHANGED <<crashed, rwLock>>
  /\ UNCHANGED <<fileVars, trieVars, cfgVars, resizer, view, hist>>

\* exclusiveWriteMmap: if atomic.LoadUint32(&isResizing) == 1 { return false }
P_CheckResizing(w) ==
  /\ ~ crashed /\ pc[w] = "pubResizing"
  /\ IF isResizing = 1 THEN Refuse(w, "resizing")
     ELSE Goto(w, "pubLoadV") /\ UNCHANGED wloc
  /\ UNCHANGED <<fileVars, crashed, trieVars, cfgVars, rwLock, resizer,
                 view, hist>>

\* loadMetaVersion
P_LoadV(w) ==
  /\ ~ crashed /\ pc[w] = "pubLoadV"
  /\ IF mapLen = 0 THEN Refuse(w, "error")
     ELSE Goto(w, "pubLoadR") /\ SetLoc(w, [wloc[w] EXCEPT !.pubV = meta.v])
  /\ UNCHANGED <<fileVars, crashed, trieVars, cfgVars, rwLock, resizer,
                 view, hist>>

\* loadMetaRootOffset
P_LoadR(w) ==
  /\ ~ crashed /\ pc[w] = "pubLoadR"
  /\ IF mapLen = 0 THEN Refuse(w, "error")
     ELSE Goto(w, "pubLoadE") /\ SetLoc(w, [wloc[w] EXCEPT !.pubR = meta.r])
  /\ UNCHANGED <<fileVars, crashed, trieVars, cfgVars, rwLock, resizer,
                 view, hist>>

\* loadMetaEndSerialized and serializePathToMemMap at that offset; the nodes
\* of the path go back to the pool.
P_LoadE(w) ==
  /\ ~ crashed /\ pc[w] = "pubLoadE"
  /\ LET ser == serializePathToMemMap(wloc[w].root, meta.e) IN
     IF mapLen = 0
     THEN Refuse(w, "error") /\ UNCHANGED crashed
     ELSE IF ser.st # "ok"
     THEN crashed' = TRUE /\ UNCHANGED <<pc, wloc>>
     ELSE /\ Goto(w, "pubFits")
          /\ SetLoc(w, [wloc[w] EXCEPT !.pubE = meta.e, !.recs = ser.recs,
                                       !.size = ser.size])
          /\ UNCHANGED crashed
  /\ UNCHANGED <<fileVars, trieVars, cfgVars, rwLock, resizer, view, hist>>

\* A test of the offset that finds room in any map.
OffsetAnywhere(offset, len) == TRUE

\* determineIfResize's first case: offset > 0 && int(offset) < len(mMap)
OffsetInMap(offset, len) == offset > 0 /\ offset < len

\* A compare-and-swap of the flag that swaps whatever the flag holds.
CasAlwaysSwaps(cur, old, new) == [ok |-> TRUE, val |-> new]

\* atomic.CompareAndSwapUint32: the flag afterwards and whether it swapped.
CompareAndSwapUint32(cur, old, new) ==
  [ok |-> cur = old, val |-> IF cur = old THEN new ELSE cur]

\* determineIfResize up to the send: the offset fits, or the map is empty or
\* the flag is already taken, or this goroutine takes the flag.
P_DetermineIfResize(w) ==
  /\ ~ crashed /\ pc[w] = "pubFits"
  /\ LET offset == wloc[w].pubE + wloc[w].size
         cas == CompareAndSwapUint32(isResizing, 0, 1)
     IN
     IF OffsetInMap(offset, mapLen)
     THEN Goto(w, "pubGate") /\ UNCHANGED <<wloc, isResizing>>
     ELSE IF mapLen = 0
     THEN Refuse(w, "extend") /\ UNCHANGED isResizing
     ELSE IF ~ cas.ok
     THEN Refuse(w, "extend") /\ isResizing' = cas.val
     ELSE Goto(w, "pubSend") /\ isResizing' = cas.val /\ UNCHANGED wloc
  /\ UNCHANGED <<meta, nodes, mapLen, crashed, trieVars, cfgVars, rwLock,
                 resizer, view, hist>>

\* signalResizeChan <- true: the channel is unbuffered, the send completes
\* when handleResize receives.
P_SendResize(w) ==
  /\ ~ crashed /\ pc[w] = "pubSend" /\ resizer.pc = "recv"
  /\ resizer' = [resizer EXCEPT !.pc = "signalled"]
  /\ Refuse(w, "extend")
  /\ UNCHANGED <<fileVars, crashed, trieVars, cfgVars, rwLock, view, hist>>

\* signalCompact: the send on the unbuffered channel succeeds only while
\* compactHandler waits at the channel; otherwise the default case is taken.
signalCompact(c) == IF c.pc = "recv" THEN [c EXCEPT !.pc = "signalled"] ELSE c

\* The compaction gate and the second load of isResizing.
P_Gate(w) ==
  /\ ~ crashed /\ pc[w] = "pubGate"
  /\ IF wloc[w].pubV >= compactAtVersion
     THEN Refuse(w, "compact") /\ comp' = signalCompact(comp)
     ELSE IF isResizing # 0 THEN Refuse(w, "resizing") /\ UNCHANGED comp
     ELSE Goto(w, "pubCas") /\ UNCHANGED <<wloc, comp>>
  /\ UNCHANGED <<fileVars, crashed, trieVars, compactAtVersion, disk, util, scan, rwLock,
                 resizer, view, hist>>

\* A publisher that does not compare the loaded version with the path's.
VersionAny(version, newVersion) == TRUE

\* version == updatedMeta.version - 1
VersionMatches(version, newVersion) == version = newVersion - 1

\* A compare-and-swap that, when it fails, writes the expected value back.
CasStoresOnFailure(cur, old, new) ==
  [ok |-> cur = old, val |-> IF cur = old THEN new ELSE old]

\* atomic.CompareAndSwapUint64: the word afterwards and whether it swapped.
CompareAndSwapUint64(cur, old, new) ==
  [ok |-> cur = old, val |-> IF cur = old THEN new ELSE cur]

\* The version test and the compare-and-swap of the version word.
P_Cas(w) ==
  /\ ~ crashed /\ pc[w] = "pubCas"
  /\ LET newVersion == wloc[w].root.version
         cas == CompareAndSwapUint64(meta.v, wloc[w].pubV, newVersion)
     IN IF ~ VersionMatches(wloc[w].pubV, newVersion)
        THEN Refuse(w, "moved") /\ UNCHANGED meta
        ELSE /\ meta' = [meta EXCEPT !.v = cas.val]
             /\ Goto(w, IF cas.ok THEN "pubStoreE" ELSE "runlock")
             /\ SetLoc(w, [wloc[w] EXCEPT
                             !.why = IF cas.ok THEN "none" ELSE "cas",
                             !.touched = @ \/ cas.val # meta.v])
  /\ UNCHANGED <<nodes, mapLen, isResizing, crashed, trieVars, cfgVars,
                 rwLock, resizer, view, hist>>

\* storeMetaPointer(endOffsetPtr, updatedMeta.nextStartOffset)
P_StoreE(w) ==
  /\ ~ crashed /\ pc[w] = "pubStoreE"
  /\ meta' = [meta EXCEPT !.e = wloc[w].pubE + wloc[w].size]
  /\ Goto(w, "pubWrite")
  /\ SetLoc(w, [wloc[w] EXCEPT !.touched = TRUE])
  /\ UNCHANGED <<nodes, mapLen, isResizing, crashed, trieVars, cfgVars,
                 rwLock, resizer, view, hist>>

\* writeNodesToMemMap and, when the slice is out of range, the three stores
\* that put the metadata words back, one step each.  A store through a
\* pointer into an unmapped file is a fatal fault.
P_Write(w) ==
  /\ ~ crashed /\ pc[w] \in {"pubWrite", "undoE", "undoV", "undoR"}
  /\ LET loc == wloc[w]
         fits == loc.pubE + loc.size <= mapLen
     IN IF pc[w] = "pubWrite"
        THEN /\ nodes' = IF fits THEN writeNodesToMemMap(nodes, loc.recs) ELSE nodes
             /\ Goto(w, IF fits THEN "pubStoreR" ELSE "undoE")
             /\ UNCHANGED <<meta, crashed, wloc>>
        ELSE IF mapLen = 0
        THEN crashed' = TRUE /\ UNCHANGED <<meta, nodes, pc, wloc>>
        ELSE /\ meta' = IF pc[w] = "undoE" THEN [meta EXCEPT !.e = loc.pubE]
                        ELSE IF pc[w] = "undoV" THEN [meta EXCEPT !.v = loc.pubV]
                        ELSE [meta EXCEPT !.r = loc.pubR]
             /\ Goto(w, IF pc[w] = "undoE" THEN "undoV"
                        ELSE IF pc[w] = "undoV" THEN "undoR" ELSE "unlockErr")
             /\ SetLoc(w, [loc EXCEPT
                             !.why = "write",
                             !.touched = IF pc[w] = "undoR"
                                         THEN meta' # [v |-> loc.pubV, r |-> loc.pubR,
                                                       e |-> loc.pubE]
                                         ELSE TRUE])
             /\ UNCHANGED <<nodes, crashed>>
  /\ UNCHANGED <<mapLen, isResizing, trieVars, cfgVars, rwLock, resizer,
                 view, hist>>

\* storeMetaPointer(rootOffsetPtr, updatedMeta.rootOffset): the new version
\* is published.
P_StoreR(w) ==
  /\ ~ crashed /\ pc[w] = "pubStoreR"
  /\ meta' = [meta EXCEPT !.r = wloc[w].pubE]
  /\ Goto(w, "unlockOk")
  /\ UNCHANGED wloc
  /\ hist' = Append(hist,
                    [version |-> wloc[w].root.version, by |-> w,
                     r |-> wloc[w].pubE, e |-> wloc[w].pubE + wloc[w].size,
                     epoch |-> comp.count,
                     body |-> wloc[w].body, expect |-> wloc[w].expect,
                     abs |-> AbsApply(IF hist = <<>> THEN ZeroMap
                                      ELSE hist[Len(hist)].abs,
                                      wloc[w].body, Len(wloc[w].body))])
  /\ UNCHANGED <<nodes, mapLen, isResizing, crashed, trieVars, cfgVars,
                 rwLock, resizer, view>>

\* signalFlush, return true; UpdateTx unlocks and returns nil.
W_ReturnOk(w) ==
  /\ ~ crashed /\ pc[w] = "unlockOk"
  /\ rwLock' = [rwLock EXCEPT !.readers = @ - 1]
  /\ Goto(w, "idle")
  /\ SetLoc(w, [wloc[w] EXCEPT !.done = @ + 1, !.root = NilINode, !.recs = {},
                               !.size = 0])
  /\ UNCHANGED <<fileVars, crashed, trieVars, cfgVars, resizer, view, hist>>

\* The path was not published: UpdateTx unlocks, then returns the write error
\* or yields and starts over.
W_Retry(w) ==
  /\ ~ crashed /\ pc[w] \in {"runlock", "unlockErr"}
  /\ rwLock' = [rwLock EXCEPT !.readers = @ - 1]
  /\ IF pc[w] = "runlock"
     THEN /\ Goto(w, "spin")
          /\ SetLoc(w, [Loc0 EXCEPT !.body = wloc[w].body, !.done = wloc[w].done])
     ELSE /\ Goto(w, "idle")
          /\ SetLoc(w, [wloc[w] EXCEPT !.done = @ + 1, !.root = NilINode])
  /\ UNCHANGED <<fileVars, crashed, trieVars, cfgVars, resizer, view, hist>>

\* ------------------------------------------------------- handleResize
\* resizeMmap: rwResizeLock.Lock() announces the writer ...
R_RequestLock ==
  /\ ~ crashed /\ resizer.pc = "signalled"
  /\ rwLock' = [rwLock EXCEPT !.pending = TRUE]
  /\ resizer' = [resizer EXCEPT !.pc = "waitLock"]
  /\ UNCHANGED <<fileVars, crashed, trieVars, cfgVars, pc, wloc, view, hist>>

\* ... and returns when nobody holds the lock.
R_Lock ==
  /\ ~ crashed /\ resizer.pc = "waitLock" /\ rwLock.readers = 0
  /\ ~ rwLock.writer
  /\ rwLock' = [rwLock EXCEPT !.pending = FALSE, !.writer = TRUE]
  /\ resizer' = [resizer EXCEPT !.pc = "locked"]
  /\ UNCHANGED <<fileVars, crashed, trieVars, cfgVars, pc, wloc, view, hist>>

\* file.Sync and munmap: data becomes the empty map.
R_Unmap ==
  /\ ~ crashed /\ resizer.pc = "locked"
  /\ resizer' = [pc |-> "unmapped", len |-> mapLen]
  /\ mapLen' = 0
  /\ UNCHANGED <<meta, nodes, isResizing, crashed, trieVars, cfgVars, pc,
                 wloc, rwLock, view, hist>>

\* A resize that maps the file again at the length it had.
R_RemapSameLength ==
  /\ ~ crashed /\ resizer.pc = "unmapped"
  /\ mapLen' = resizer.len
  /\ resizer' = [pc |-> "mapped", len |-> 0]
  /\ UNCHANGED <<meta, nodes, isResizing, crashed, trieVars, cfgVars, pc,
                 wloc, rwLock, view, hist>>

\* file.Truncate(allocateSize) and mMap.
R_Remap ==
  /\ ~ crashed /\ resizer.pc = "unmapped"
  /\ mapLen' = allocateSize(resizer.len)
  /\ resizer' = [pc |-> "mapped", len |-> 0]
  /\ UNCHANGED <<meta, nodes, isResizing, crashed, trieVars, cfgVars, pc,
                 wloc, rwLock, view, hist>>

\* The deferred atomic.StoreUint32(&isResizing, 0) ...
R_ClearFlag ==
  /\ ~ crashed /\ resizer.pc = "mapped"
  /\ isResizing' = 0
  /\ resizer' = [resizer EXCEPT !.pc = "unlock"]
  /\ UNCHANGED <<meta, nodes, mapLen, crashed, trieVars, cfgVars, pc, wloc,
                 rwLock, view, hist>>

\* ... and the deferred rwResizeLock.Unlock(); back to the channel.
R_Unlock ==
  /\ ~ crashed /\ resizer.pc = "unlock"
  /\ rwLock' = [rwLock EXCEPT !.writer = FALSE]
  /\ resizer' = [resizer EXCEPT !.pc = "recv"]
  /\ UNCHANGED <<fileVars, crashed, trieVars, cfgVars, pc, wloc, view, hist>>

\* ------------------------------------------------------------- ViewTx
\* A view transaction that starts each Get from the root of the moment.
ViewRootLatest(txRoot, currentRoot) == currentRoot

\* newTx keeps the root read at the start; every Get of the transaction
\* starts from it.
ViewRoot(txRoot, currentRoot) == txRoot

\* ViewTx up to the call of the body: loadMetaRootOffset and
\* readINodeFromMemMap, with no lock taken.  While the file is unmapped both
\* fail and ViewTx returns the error.
V_Start ==
  /\ ~ crashed /\ ~ view.open /\ mapLen > 0
  /\ LET rd == readINodeFromMemMap(MM, meta.r) IN
     /\ rd.st = "ok"
     /\ view' = [View0 EXCEPT !.open = TRUE, !.root = rd.node,
                              !.snap = Contents(MM)]
  /\ UNCHANGED <<fileVars, crashed, trieVars, cfgVars, pc, wloc, rwLock,
                 resizer, hist>>

\* What tx.Get(key, nil) returns in the open view transaction.
ViewOutcome(key) ==
  LET cur == readINodeFromMemMap(MM, meta.r) IN
  Outcome(getRecursive(MM, ViewRoot(view.root, cur.node), key, 0))

\* tx.Get(key, nil) in the view transaction, any number of times.
V_Get(key) ==
  /\ ~ crashed /\ view.open
  /\ crashed' = (ViewOutcome(key) = -2)
  /\ view' = [view EXCEPT !.read = TRUE]
  /\ UNCHANGED <<fileVars, trieVars, cfgVars, pc, wloc, rwLock, resizer,
                 hist>>

\* The body returns.
V_End ==
  /\ ~ crashed /\ view.open /\ view.read
  /\ view' = View0
  /\ scan' = Scan0
  /\ UNCHANGED <<fileVars, crashed, trieVars, compactAtVersion, disk, util, comp, pc, wloc,
                 rwLock, resizer, hist>>

Next ==
  \/ \E w \in Writers, body \in Bodies : W_Start(w, body)
  \/ \E w \in Writers : W_Spin(w)
  \/ \E w \in Writers : W_RLock(w)
  \/ \E w \in Writers : W_LoadV(w)
  \/ \E w \in Writers : W_Recheck(w)
  \/ \E w \in Writers : W_LoadRoot(w)
  \/ \E w \in Writers : P_CheckResizing(w)
  \/ \E w \in Writers : P_LoadV(w)
  \/ \E w \in Writers : P_LoadR(w)
  \/ \E w \in Writers : P_LoadE(w)
  \/ \E w \in Writers : P_DetermineIfResize(w)
  \/ \E w \in Writers : P_SendResize(w)
  \/ \E w \in Writers : P_Gate(w)
  \/ \E w \in Writers : P_Cas(w)
  \/ \E w \in Writers : P_StoreE(w)
  \/ \E w \in Writers : P_Write(w)
  \/ \E w \in Writers : P_StoreR(w)
  \/ \E w \in Writers : W_ReturnOk(w)
  \/ \E w \in Writers : W_Retry(w)
  \/ R_RequestLock
  \/ R_Lock
  \/ R_Unmap
  \/ R_Remap
  \/ R_ClearFlag
  \/ R_Unlock
  \/ V_Start
  \/ \E k \in BodyKeys : V_Get(k)
  \/ V_End

Spec == Init /\ [][Next]_vars

\* ------------------------------------------- Range, Iterate, view writes
\* bytes.Compare: -1, 0 or 1 in lexicographic order of the bytes.
RECURSIVE KeyCompare(_, _)
KeyCompare(a, b) ==
  IF a = <<>> /\ b = <<>> THEN 0
  ELSE IF a = <<>> THEN -1
  ELSE IF b = <<>> THEN 1
  ELSE IF a[1] < b[1] THEN -1
  ELSE IF a[1] > b[1] THEN 1
  ELSE KeyCompare(Tail(a), Tail(b))

\* genKeyValPair: the pair of the node's leaf (transform is the identity).
genKeyValPair(node) ==
  [version |-> node.leaf.version, key |-> node.leaf.key, value |-> node.leaf.value]

\* The result of a scan: st as for the other operations, "diverge" for a
\* loop that cannot end; kv the pairs returned.
ScanRes(st, kv) == [st |-> st, kv |-> kv]

\* The first switch of rangeRecursive: whether it returns at once, the pairs
\* so far and the positions startKeyPos and endKeyPos.  A nil key is <<>>;
\* minVersion is 0, so every leaf passes the version test.
RangeHead(currNode, startKey, endKey, level) ==
  LET leaf == currNode.leaf
      n == Len(currNode.children)
      pair == <<genKeyValPair(currNode)>>
      stop == [ret |-> TRUE, kv |-> <<>>, s |-> 0, e |-> 0]
  IN
  IF level > 0
  THEN IF Len(startKey) > level
       THEN IF KeyCompare(leaf.key, startKey) = 1
            THEN [ret |-> FALSE, kv |-> pair,
                  s |-> getPosition(currNode.bitmap, getIndexForLevel(startKey, level)),
                  e |-> n]
            ELSE stop
       ELSE IF Len(endKey) > level
       THEN IF KeyCompare(leaf.key, endKey) = -1
            THEN [ret |-> FALSE, kv |-> pair, s |-> 0,
                  e |-> getPosition(currNode.bitmap, getIndexForLevel(endKey, level))]
            ELSE stop
       ELSE [ret |-> FALSE, kv |-> IF Len(leaf.key) > 0 THEN pair ELSE <<>>,
             s |-> 0, e |-> n]
  ELSE IF startKey = <<>> /\ endKey = <<>>
       THEN [ret |-> FALSE, kv |-> <<>>, s |-> 0, e |-> n]
       ELSE [ret |-> FALSE, kv |-> <<>>,
             s |-> getPosition(currNode.bitmap, getIndexForLevel(startKey, 0)),
             e |-> getPosition(currNode.bitmap, getIndexForLevel(endKey, 0))]

RECURSIVE rangeRecursive(_, _, _, _, _)
RECURSIVE RangeLoop(_, _, _, _, _, _, _, _, _)

\* for idx, childOffset := range currNode.children[startKeyPos:endKeyPos],
\* from idx on, with the pairs gathered so far.
RangeLoop(mm, currNode, startKey, endKey, level, startKeyPos, endKeyPos, idx, kv) ==
  IF startKeyPos + idx >= endKeyPos THEN ScanRes("ok", kv)
  ELSE
  LET childOffset == currNode.children[startKeyPos + idx + 1] IN
  IF IsNil(childOffset) THEN ScanRes("panic", <<>>)
  ELSE
  LET got == getChildNode(mm, childOffset, currNode.version) IN
  IF got.st # "ok" THEN ScanRes("err", <<>>)
  ELSE
  LET sub == IF idx = 0 /\ startKey # <<>>
             THEN rangeRecursive(mm, got.node, startKey, <<>>, level + 1)
             ELSE IF idx = endKeyPos /\ endKey # <<>>
             THEN rangeRecursive(mm, got.node, <<>>, endKey, level + 1)
             ELSE rangeRecursive(mm, got.node, <<>>, <<>>, level + 1)
  IN IF sub.st # "ok" THEN sub
     ELSE RangeLoop(mm, currNode, startKey, endKey, level, startKeyPos, endKeyPos,
                    idx + 1, kv \o sub.kv)

rangeRecursive(mm, currNode, startKey, endKey, level) ==
  LET h == RangeHead(currNode, startKey, endKey, level)
      n == Len(currNode.children)
  IN
  IF h.ret \/ n = 0 THEN ScanRes("ok", h.kv)
  ELSE IF h.s = h.e
  THEN IF h.s + 1 > n \/ IsNil(currNode.children[h.s + 1])
       THEN ScanRes("panic", <<>>)
       ELSE LET got == getChildNode(mm, currNode.children[h.s + 1], currNode.version) IN
            IF got.st # "ok" THEN ScanRes("err", <<>>)
            ELSE LET sub == rangeRecursive(mm, got.node, startKey, endKey, level + 1) IN
                 IF sub.st # "ok" THEN sub ELSE ScanRes("ok", h.kv \o sub.kv)
  ELSE IF h.s > h.e \/ h.e > n THEN ScanRes("panic", <<>>)
  ELSE RangeLoop(mm, currNode, startKey, endKey, level, h.s, h.e, 0, h.kv)

\* tx.Range(startKey, endKey, nil)
Range(mm, root, startKey, endKey) ==
  IF KeyCompare(startKey, endKey) = 1 THEN ScanRes("err", <<>>)
  ELSE rangeRecursive(mm, root, startKey, endKey, 0)

\* A loop that looks at the same child again on every lap.
SamePos(currPos) == currPos

\* currPos += 1
NextPos(currPos) == currPos + 1

\* The first switch of iterateRecursive: whether it returns at once, the
\* accumulator and startKeyPos.
IterateHead(currNode, startKey, totalResults, level, acc) ==
  LET leaf == currNode.leaf
      pair == genKeyValPair(currNode)
  IN
  IF level > 0
  THEN IF totalResults = Len(acc)
       THEN [ret |-> TRUE, acc |-> acc, s |-> 0]
       ELSE IF Len(startKey) = level
       THEN [ret |-> FALSE, acc |-> Append(acc, pair), s |-> 0]
       ELSE IF Len(startKey) > level
       THEN [ret |-> FALSE,
             acc |-> IF KeyCompare(leaf.key, startKey) \in {0, 1}
                     THEN Append(acc, pair) ELSE acc,
             s |-> getPosition(currNode.bitmap, getIndexForLevel(startKey, level))]
       ELSE [ret |-> FALSE,
             acc |-> IF Len(leaf.key) > 0 THEN Append(acc, pair) ELSE acc,
             s |-> 0]
  ELSE [ret |-> FALSE, acc |-> acc,
        s |-> getPosition(currNode.bitmap, getIndexForLevel(startKey, 0))]

RECURSIVE iterateRecursive(_, _, _, _, _, _)
RECURSIVE IterateLoop(_, _, _, _, _, _, _, _)

\* for totalResults > len(acc) && currPos < len(currNode.children).  A lap
\* that changes neither the accumulator nor currPos is followed by the same
\* lap again, without end.
IterateLoop(mm, currNode, startKey, totalResults, level, startKeyPos, currPos, acc) ==
  IF ~ (totalResults > Len(acc) /\ currPos < Len(currNode.children))
  THEN ScanRes("ok", acc)
  ELSE
  LET childOffset == currNode.children[currPos + 1] IN
  IF IsNil(childOffset) THEN ScanRes("panic", <<>>)
  ELSE
  LET got == getChildNode(mm, childOffset, currNode.version) IN
  IF got.st # "ok" THEN ScanRes("err", <<>>)
  ELSE
  LET sub == IF currPos = startKeyPos /\ startKey # <<>>
             THEN iterateRecursive(mm, got.node, startKey, totalResults, level + 1, acc)
             ELSE iterateRecursive(mm, got.node, <<>>, totalResults, level + 1, acc)
  IN IF sub.st # "ok" THEN sub
     ELSE IF sub.kv = acc /\ NextPos(currPos) = currPos THEN ScanRes("diverge", <<>>)
     ELSE IterateLoop(mm, currNode, startKey, totalResults, level, startKeyPos,
                      NextPos(currPos), sub.kv)

iterateRecursive(mm, currNode, startKey, totalResults, level, acc) ==
  LET h == IterateHead(currNode, startKey, totalResults, level, acc) IN
  IF h.ret \/ Len(currNode.children) = 0 THEN ScanRes("ok", h.acc)
  ELSE IterateLoop(mm, currNode, startKey, totalResults, level, h.s, h.s, h.acc)

\* tx.Iterate(startKey, totalResults, nil)
Iterate(mm, root, startKey, totalResults) ==
  iterateRecursive(mm, root, startKey, totalResults, 0, <<>>)

\* A transaction that takes every write.
ReadOnlyNever(isWrite) == FALSE

\* if ! tx.isWrite { return errors.New(...) }
ReadOnly(isWrite) == ~ isWrite

\* tx.Put and tx.Delete of a transaction made by newTx(_, root, isWrite).
TxPut(mm, root, isWrite, key, value) ==
  IF ReadOnly(isWrite) THEN Res("err", root) ELSE putRecursive(mm, root, key, value, 0)

TxDelete(mm, root, isWrite, key) ==
  IF ReadOnly(isWrite) THEN Res("err", root) ELSE deleteRecursive(mm, root, key, 0)

\* UpdateTx with no other goroutine at work: the root of the current version
\* tagged with the next one, the body, and the publication of the path.
UpdateTxAlone(mm, body) ==
  LET rd == readINodeFromMemMap(mm, mm.meta.r)
      root == [rd.node EXCEPT !.version = rd.node.version + 1]
      run == RunBody(mm, root, body, Len(body))
  IN IF rd.st # "ok" THEN [st |-> "err", mm |-> mm]
     ELSE IF run.st # "ok" THEN [st |-> run.st, mm |-> mm]
     ELSE Published(mm, run.node)

\* The transactions that fill the store: one put each.
ScanBodies == {<<Put(k, 1)>> : k \in Keys}

\* One goroutine fills the store, then runs view transactions on it, each
\* of one operation.
ScanInit ==
  /\ FileInit
  /\ ConcIdle
  /\ compactAtVersion = MaxLoads + 1
  /\ sess = Sess0
  /\ lastOp = NoOp
  /\ ghost = [cur |-> ZeroMap, committed |-> ZeroMap, anyDelete |-> FALSE]

\* A whole UpdateTx.
S_Update(body) ==
  /\ ~ crashed /\ ~ view.open /\ meta.v < MaxLoads
  /\ LET res == UpdateTxAlone(MM, body) IN
     /\ crashed' = (res.st = "panic")
     /\ meta' = res.mm.meta
     /\ nodes' = res.mm.nodes
     /\ mapLen' = res.mm.len
  /\ UNCHANGED <<isResizing, trieVars, cfgVars, concVars>>

\* The effect of an operation of the view transaction with result res.
AfterScan(op, a, b, n, res) ==
  /\ crashed' = (res.st \in {"panic", "diverge"})
  /\ scan' = [op |-> op, a |-> a, b |-> b, n |-> n, st |-> res.st, kv |-> res.kv]
  /\ UNCHANGED <<fileVars, trieVars, compactAtVersion, disk, util, comp, pc, wloc, rwLock,
                 resizer, hist>>

\* tx.Range(startKey, endKey, nil) in the view transaction.
S_Range(startKey, endKey) ==
  /\ ~ crashed /\ view.open /\ ~ view.read
  /\ view' = [view EXCEPT !.read = TRUE]
  /\ AfterScan("range", startKey, endKey, 0, Range(MM, view.root, startKey, endKey))

\* tx.Iterate(startKey, totalResults, nil) in the view transaction.
S_Iterate(startKey, totalResults) ==
  /\ ~ crashed /\ view.open /\ ~ view.read
  /\ view' = [view EXCEPT !.read = TRUE]
  /\ AfterScan("iterate", startKey, <<>>, totalResults,
               Iterate(MM, view.root, startKey, totalResults))

\* tx.Put(key, value) in the view transaction.
S_Put(key, value) ==
  /\ ~ crashed /\ view.open /\ ~ view.read
  /\ LET res == TxPut(MM, view.root, FALSE, key, value) IN
     /\ view' = [view EXCEPT !.read = TRUE, !.root = res.node]
     /\ AfterScan("put", key, <<>>, value, ScanRes(res.st, <<>>))

\* tx.Delete(key) in the view transaction.
S_Delete(key) ==
  /\ ~ crashed /\ view.open /\ ~ view.read
  /\ LET res == TxDelete(MM, view.root, FALSE, key) IN
     /\ view' = [view EXCEPT !.read = TRUE, !.root = res.node]
     /\ AfterScan("del", key, <<>>, 0, ScanRes(res.st, <<>>))

ScanNext ==
  \/ \E body \in ScanBodies : S_Update(body)
  \/ V_Start
  \/ \E a \in Keys, b \in Keys : S_Range(a, b)
  \/ \E k \in Keys, n \in 0..MaxCount : S_Iterate(k, n)
  \/ \E k \in Keys, v \in Vals : S_Put(k, v)
  \/ \E k \in Keys : S_Delete(k)
  \/ V_End

SpecScan == ScanInit /\ [][ScanNext]_vars

\* ------------------------------------------------------- compaction
\* resizeTempFile(offset) on a temporary map of length len: nothing to do when
\* the offset lies inside the map, else one step of growth.
resizeTempFile(len, offset) ==
  IF offset > 0 /\ offset < len THEN len ELSE allocateSize(len)

\* A copy whose nodes keep pointing at the offsets of the old file.
OldChildOffset(childStartOffset, nextStartOffset) == childStartOffset

\* sNode = append(sNode, serializeUint64(nextStartOffset)...): the offset
\* recorded for a child is the place its copy is written to.
NewChildOffset(childStartOffset, nextStartOffset) == nextStartOffset

RECURSIVE serializeCurrentVersionToNewFile(_, _, _, _, _)
RECURSIVE CompactChildren(_, _, _, _, _, _, _, _)

\* The loop over currNode.children of serializeCurrentVersionToNewFile, from
\* child i on: each child is read from the old map and copied at
\* nextStartOffset.  len is the length of the temporary map.
CompactChildren(mm, node, i, version, nextStartOffset, offsets, len, recs) ==
  IF i > Len(node.children)
  THEN [st |-> "ok", offsets |-> offsets, len |-> len, recs |-> recs,
        next |-> nextStartOffset]
  ELSE
  LET child == node.children[i]
      stop(st) == [st |-> st, offsets |-> offsets, len |-> len, recs |-> recs,
                   next |-> nextStartOffset]
  IN
  IF IsNil(child) THEN stop("panic")
  ELSE
  LET rd == readINodeFromMemMap(mm, child.startOffset) IN
  IF rd.st # "ok" THEN stop("err")
  ELSE
  LET sub == serializeCurrentVersionToNewFile(mm, rd.node, version,
                                              nextStartOffset, len)
  IN IF sub.st # "ok" THEN stop(sub.st)
     ELSE CompactChildren(mm, node, i + 1, version, sub.next,
                          Append(offsets,
                                 NewChildOffset(child.startOffset, nextStartOffset)),
                          sub.len, recs \cup sub.recs)

\* serializeCurrentVersionToNewFile: the node gets the version and the offset
\* given, its children are copied behind its leaf, then the node and its leaf
\* are copied into the temporary map, which is grown once if the leaf ends
\* beyond it.  A copy into a slice beyond the map panics.
serializeCurrentVersionToNewFile(mm, node, version, offset, len) ==
  LET endOffset == determineEndOffsetINode(offset, node.bitmap)
      leafStart == endOffset + 1
      leafEnd == determineEndOffsetLNode(leafStart, node.leaf.key, node.leaf.value)
      kids == CompactChildren(mm, node, 1, version, leafEnd + 1, <<>>, len, {})
      newLen == resizeTempFile(kids.len, leafEnd + 1)
      inode == SINode(version, offset, endOffset, node.bitmap, leafStart,
                      kids.offsets)
      lnode == SLNode(version, leafStart, leafEnd, node.leaf.key, node.leaf.value)
  IN IF kids.st # "ok"
     THEN [st |-> kids.st, len |-> kids.len, recs |-> {}, next |-> offset]
     ELSE IF leafEnd + 1 > newLen
     THEN [st |-> "panic", len |-> newLen, recs |-> {}, next |-> offset]
     ELSE [st |-> "ok", len |-> newLen, recs |-> {inode, lnode} \cup kids.recs,
           next |-> kids.next]

\* A compaction that keeps the version of the root it copies.
CompactedVersionKept(currVersion) == currVersion

\* newMeta := &MariMetaData{ version: 0, ... }
CompactedVersion(currVersion) == 0

\* The calls of the operating system that can fail in a run of compactHandler:
\* in newCompaction (after the temporary file is created), in
\* serializeCurrentVersionToNewFile, in writeMetaToTempMemMap, and in
\* swapTempFileWithMari the Sync of the file, the Sync of the version index
\* (after the munmap of the file), the Sync of the temporary file, and the
\* OpenFile or mMap that follow the renames.
BuildFaults == {"newCompaction", "serialize", "writeMeta"}
CloseFaults == {"sync", "vIdxSync", "tempSync"}
RemapFaults == {"open"}

\* compactHandler from loadMetaRootOffset to writeMetaToTempMemMap on the
\* image mm, with the call named by fault failing ("none": no call fails).
\* newCompaction returns its error with the temporary file left in place; the
\* later errors remove it.
CompactionBuilt(mm, fault) ==
  LET rd == readINodeFromMemMap(mm, mm.meta.r)
      created == [NoTemp EXCEPT !.exists = TRUE]
      ser == serializeCurrentVersionToNewFile(mm, rd.node, 0, InitRootOffset,
                                              resizeTempFile(0, 0))
      newMeta == [v |-> CompactedVersion(rd.node.version), r |-> InitRootOffset,
                  e |-> ser.next]
  IN IF rd.st # "ok" THEN [st |-> "err", temp |-> NoTemp]
     ELSE IF fault = "newCompaction" THEN [st |-> "err", temp |-> created]
     ELSE IF ser.st = "panic" THEN [st |-> "panic", temp |-> created]
     ELSE IF ser.st # "ok" \/ fault \in {"serialize", "writeMeta"}
     THEN [st |-> "err", temp |-> NoTemp]
     ELSE [st |-> "ok",
           temp |-> [exists |-> TRUE, len |-> ser.len, meta |-> newMeta,
                     nodes |-> writeNodesToMemMap(<<>>, ser.recs)]]

\* The transactions run beside the compactor.
CompactBodies ==
  { <<Put(<<97>>, 1)>>,
    <<Put(<<97, 97>>, 1), Put(<<97, 97, 97>>, 2)>>,
    <<Put(<<98>>, 2)>> }

\* The goroutine that runs UpdateTx beside the compactor, one call after the
\* other.
CompactWriters == {"w1"}

\* The versions at which the publisher asks for compaction.
CompactAts == {1, 2}

\* A goroutine runs UpdateTx while compactHandler and handleResize wait for
\* their signals.
CompactInit ==
  /\ FileInit
  /\ ConcIdle
  /\ compactAtVersion \in CompactAts
  /\ sess = Sess0
  /\ lastOp = NoOp
  /\ ghost = [cur |-> ZeroMap, committed |-> ZeroMap, anyDelete |-> FALSE]

\* A goroutine calls UpdateTx with one of the bodies.
C_Start(w, body) ==
  /\ ~ crashed /\ pc[w] = "idle" /\ TxCalls(Writers) < MaxCompactTx
  /\ Goto(w, "spin")
  /\ SetLoc(w, [Loc0 EXCEPT !.body = body, !.done = wloc[w].done])
  /\ UNCHANGED <<fileVars, crashed, trieVars, cfgVars, rwLock, resizer,
                 view, hist>>

\* The run of compactHandler ends with an error: it is printed, the deferred
\* calls follow.
CompactFails(c, temp) ==
  [c EXCEPT !.pc = "unlock", !.result = "failed", !.temp = temp]

\* for ! atomic.CompareAndSwapUint32(&isResizing, 0, 1) { runtime.Gosched() }
K_TakeFlag ==
  /\ ~ crashed /\ comp.pc = "signalled" /\ isResizing = 0
  /\ isResizing' = 1
  /\ comp' = [comp EXCEPT !.pc = "flag", !.result = "none", !.old = "kept"]
  /\ UNCHANGED <<meta, nodes, mapLen, crashed, trieVars, compactAtVersion, disk, util, scan,
                 concVars>>

\* rwResizeLock.Lock() announces the writer ...
K_RequestLock ==
  /\ ~ crashed /\ comp.pc = "flag"
  /\ rwLock' = [rwLock EXCEPT !.pending = TRUE]
  /\ comp' = [comp EXCEPT !.pc = "waitLock"]
  /\ UNCHANGED <<fileVars, crashed, trieVars, compactAtVersion, disk, util, scan, pc, wloc,
                 resizer, view, hist>>

\* ... and returns when nobody holds the lock.
K_Lock ==
  /\ ~ crashed /\ comp.pc = "waitLock" /\ rwLock.readers = 0 /\ ~ rwLock.writer
  /\ rwLock' = [rwLock EXCEPT !.pending = FALSE, !.writer = TRUE]
  /\ comp' = [comp EXCEPT !.pc = "locked"]
  /\ UNCHANGED <<fileVars, crashed, trieVars, compactAtVersion, disk, util, scan, pc, wloc,
                 resizer, view, hist>>

\* The root is loaded and the current version is written to the temporary
\* file, metadata included.
K_Build(fault) ==
  /\ ~ crashed /\ comp.pc = "locked"
  /\ fault = "none" \/ comp.faults < MaxFaults
  /\ LET built == CompactionBuilt(MM, fault)
         c == [comp EXCEPT !.faults = IF fault = "none" THEN @ ELSE @ + 1,
                           !.before = [meta |-> meta, nodes |-> nodes,
                                       contents |-> Contents(MM)]]
     IN /\ crashed' = (built.st = "panic")
        /\ comp' = IF built.st = "ok"
                   THEN [c EXCEPT !.pc = "built", !.temp = built.temp]
                   ELSE CompactFails(c, built.temp)
  /\ UNCHANGED <<fileVars, trieVars, compactAtVersion, disk, util, scan, concVars>>

\* swapTempFileWithMari up to the Close of the temporary file.  Close of the
\* store does nothing when the store is not opened; else it clears opened,
\* syncs and unmaps the file, syncs and unmaps the version index and closes
\* both.  An error removes the temporary file.
K_Close(fault) ==
  /\ ~ crashed /\ comp.pc = "built"
  /\ fault = "none" \/ comp.faults < MaxFaults
  /\ fault \in {"sync", "vIdxSync"} => comp.opened
  /\ LET c == [comp EXCEPT !.faults = IF fault = "none" THEN @ ELSE @ + 1,
                           !.opened = FALSE]
     IN /\ mapLen' = IF comp.opened /\ fault # "sync" THEN 0 ELSE mapLen
        /\ comp' = IF fault = "none" THEN [c EXCEPT !.pc = "closed"]
                   ELSE CompactFails(c, NoTemp)
  /\ UNCHANGED <<meta, nodes, isResizing, crashed, trieVars, compactAtVersion, disk, util,
                 scan, concVars>>

\* os.Rename(current, swap), os.Rename(temp, current), os.Remove(swap): the
\* file under the name of the store is now the compacted copy and the old
\* file is removed.  What is mapped, if anything, are still the old bytes.
K_Rename ==
  /\ ~ crashed /\ comp.pc = "closed"
  /\ comp' = [comp EXCEPT !.pc = "renamed", !.temp.exists = FALSE,
                          !.old = "removed"]
  /\ UNCHANGED <<fileVars, crashed, trieVars, compactAtVersion, disk, util, scan, concVars>>

\* os.OpenFile and mMap of the new file: its bytes are what the store reads
\* from now on; swapTempFileWithMari returns.
K_Remap(fault) ==
  /\ ~ crashed /\ comp.pc = "renamed"
  /\ fault = "none" \/ comp.faults < MaxFaults
  /\ IF fault = "none"
     THEN /\ mapLen' = comp.temp.len
          /\ meta' = comp.temp.meta
          /\ nodes' = comp.temp.nodes
          /\ comp' = [comp EXCEPT !.pc = "unlock", !.result = "done",
                                  !.count = @ + 1, !.temp = NoTemp]
     ELSE /\ UNCHANGED <<meta, nodes, mapLen>>
          /\ comp' = CompactFails([comp EXCEPT !.faults = @ + 1], NoTemp)
  /\ UNCHANGED <<isResizing, crashed, trieVars, compactAtVersion, disk, util, scan, concVars>>

\* The deferred rwResizeLock.Unlock() ...
K_Unlock ==
  /\ ~ crashed /\ comp.pc = "unlock"
  /\ rwLock' = [rwLock EXCEPT !.writer = FALSE, !.pending = FALSE]
  /\ comp' = [comp EXCEPT !.pc = "clearFlag"]
  /\ UNCHANGED <<fileVars, crashed, trieVars, compactAtVersion, disk, util, scan, pc, wloc,
                 resizer, view, hist>>

\* ... and the deferred atomic.StoreUint32(&isResizing, 0); back to the
\* channel.
K_ClearFlag ==
  /\ ~ crashed /\ comp.pc = "clearFlag"
  /\ isResizing' = 0
  /\ comp' = [comp EXCEPT !.pc = "recv"]
  /\ UNCHANGED <<meta, nodes, mapLen, crashed, trieVars, compactAtVersion, disk, util, scan,
                 concVars>>

CompactNext ==
  \/ \E w \in CompactWriters, body \in CompactBodies : C_Start(w, body)
  \/ \E w \in CompactWriters : W_Spin(w)
  \/ \E w \in CompactWriters : W_RLock(w)
  \/ \E w \in CompactWriters : W_LoadV(w)
  \/ \E w \in CompactWriters : W_Recheck(w)
  \/ \E w \in CompactWriters : W_LoadRoot(w)
  \/ \E w \in CompactWriters : P_CheckResizing(w)
  \/ \E w \in CompactWriters : P_LoadV(w)
  \/ \E w \in CompactWriters : P_LoadR(w)
  \/ \E w \in CompactWriters : P_LoadE(w)
  \/ \E w \in CompactWriters : P_DetermineIfResize(w)
  \/ \E w \in CompactWriters : P_SendResize(w)
  \/ \E w \in CompactWriters : P_Gate(w)
  \/ \E w \in CompactWriters : P_Cas(w)
  \/ \E w \in CompactWriters : P_StoreE(w)
  \/ \E w \in CompactWriters : P_Write(w)
  \/ \E w \in CompactWriters : P_StoreR(w)
  \/ \E w \in CompactWriters : W_ReturnOk(w)
  \/ \E w \in CompactWriters : W_Retry(w)
  \/ R_RequestLock
  \/ R_Lock
  \/ R_Unmap
  \/ R_Remap
  \/ R_ClearFlag
  \/ R_Unlock
  \/ K_TakeFlag
  \/ K_RequestLock
  \/ K_Lock
  \/ \E f \in {"none"} \cup BuildFaults : K_Build(f)
  \/ \E f \in {"none"} \cup CloseFaults : K_Close(f)
  \/ K_Rename
  \/ \E f \in {"none"} \cup RemapFaults : K_Remap(f)
  \/ K_Unlock
  \/ K_ClearFlag

SpecCompact == CompactInit /\ [][CompactNext]_vars

\* ===================================================== claims on the trie
\* C3: as long as the session has only put, a view of the transaction's tree
\* reads, for every key written so far, the value most recently put under it.
C3_GetReturnsLastPut ==
  (lastOp.op = "put" /\ lastOp.st = "ok" /\ ~ ghost.anyDelete)
    => \A k \in Keys : ghost.cur[k] # 0 => lastOp.after[k] = ghost.cur[k]

\* C4: a put of key k leaves every other key that was readable before it
\* readable with the same value.
C4_PutKeepsOtherLeaves ==
  lastOp.op = "put"
    => \A k \in Keys \ {lastOp.key} :
         lastOp.before[k] > 0 => lastOp.after[k] = lastOp.before[k]

\* C5: a delete of a key that is not stored returns no error, does not crash
\* and leaves every stored pair as it was.
C5_DeleteAbsentIsNoOp ==
  (lastOp.op = "del" /\ lastOp.before[lastOp.key] = 0)
    => lastOp.st = "ok" /\ lastOp.after = lastOp.before

\* C6: a delete of key k that finds k stored makes k unreadable and leaves
\* every other key readable with the value it had, also after puts of the
\* same transaction.
C6_DeleteKeepsOtherKeys ==
  (lastOp.op = "del" /\ lastOp.before[lastOp.key] > 0)
    => /\ lastOp.st = "ok"
       /\ lastOp.after[lastOp.key] = 0
       /\ \A k \in Keys \ {lastOp.key} : lastOp.after[k] = lastOp.before[k]

\* C9: a get inside an update transaction returns what the transaction's own
\* tree holds for the key.
C9_TxReadsOwnWrites ==
  lastOp.op = "get" => lastOp.result = lastOp.before[lastOp.key]

\* ============================================ claims on the concurrent run
\* The writers between the swap of the version word and the store of the root
\* offset.
InFlight == {w \in Writers : pc[w] \in {"pubStoreE", "pubWrite", "pubStoreR"}}

PutsOnly(body) == \A i \in 1..Len(body) : body[i].op = "put"

\* C1: when every published transaction only puts, the published state holds,
\* for every key put, the value of the put with the highest version: it is
\* the result of applying the bodies to a key/value map in version order.
C1_NoCommittedWriteLost ==
  (mapLen > 0 /\ hist # <<>> /\ \A i \in 1..Len(hist) : PutsOnly(hist[i].body))
    => \A k \in Keys :
         hist[Len(hist)].abs[k] # 0 => Contents(MM)[k] = hist[Len(hist)].abs[k]

\* C2: the i-th successful publication publishes version i, so every
\* publication raises V by exactly one and no version is published twice; V is
\* the number of publications, plus one while a single publisher stands
\* between its swap of V and its store of the root offset.
C2_VersionCountsPublications ==
  /\ \A i \in 1..Len(hist) : hist[i].version = i
  /\ Cardinality(InFlight) <= 1
  /\ meta.v = Len(hist) + Cardinality(InFlight)

C2_Witness ==
  /\ Len(hist) = 2 /\ hist[1].by # hist[2].by
  /\ Len(hist[1].body) # Len(hist[2].body)
  /\ \A w \in Writers : pc[w] = "idle"
  /\ meta.v = 2

C8_BodyPublishedWhole ==
  mapLen > 0
    => Contents(MM) = (IF hist = <<>> THEN ZeroMap ELSE hist[Len(hist)].expect)

C8_Witness ==
  /\ hist # <<>> /\ Len(hist[Len(hist)].body) = 2 /\ mapLen > 0
  /\ Contents(MM)[<<97, 97>>] = 1 /\ Contents(MM)[<<97, 97, 97>>] = 2
  /\ view.open /\ view.snap[<<97, 97>>] = 0 /\ view.snap[<<97, 97, 97>>] = 0

PubEnd(v) ==
  IF v = 0 THEN InitMeta.e
  ELSE IF v <= Len(hist) THEN hist[v].e
  ELSE LET x == CHOOSE w \in InFlight : wloc[w].root.version = v
       IN wloc[x].pubE + wloc[x].size

\* C11: a goroutine that has loaded version v from the metadata and then the
\* root offset and the next-free offset has a root offset that points at the
\* root of version v (or a later one) and a next-free offset that covers the
\* bytes of version v; and no byte is written at or beyond the next-free
\* offset of the moment.
C11_NewVersionSeesItsBytes ==
  /\ \A w \in Writers :
        /\ pc[w] \in {"pubLoadE", "pubFits"} => nodes[wloc[w].pubR].version >= wloc[w].pubV
        /\ pc[w] = "pubFits" => wloc[w].pubE >= PubEnd(wloc[w].pubV)
  /\ \A o \in DOMAIN nodes : nodes[o].endOffset < meta.e

BodyFails(body) == \E i \in 1..Len(body) : body[i].op = "fail"

\* C12: an update transaction whose body returns an error is never handed to
\* the publisher, so it changes no metadata word and no byte and is never
\* published, and UpdateTx has returned the error without starting over.
C12_BodyErrorNotPublished ==
  /\ \A i \in 1..Len(hist) : ~ BodyFails(hist[i].body)
  /\ \A w \in Writers :
        BodyFails(wloc[w].body)
          => /\ pc[w] \in {"idle", "spin", "rlock", "loadV", "recheck", "loadRoot",
                           "runlock"}
             /\ ~ wloc[w].touched /\ wloc[w].recs = {}
             /\ (wloc[w].why = "error" => pc[w] = "idle" /\ wloc[w].done > 0)

C12_Witness ==
  \E w \in Writers :
    /\ pc[w] = "idle" /\ wloc[w].why = "error" /\ BodyFails(wloc[w].body)
    /\ Len(hist) = 1 /\ hist[1].by # w /\ mapLen > 0
    /\ Contents(MM)[<<98>>] = 0


\* C13: a put or a delete attempted inside a view transaction returns an
\* error, and leaves the root and the snapshot of the transaction, the
\* metadata and the bytes of the file as they were.
C13_ViewWriteRefused ==
  [][ (scan' # scan /\ scan'.op \in {"put", "del"})
        => /\ scan'.st = "err"
           /\ view'.root = view.root
           /\ view'.snap = view.snap
           /\ meta' = meta /\ nodes' = nodes /\ mapLen' = mapLen
           /\ ~ crashed' ]_vars

C13_Witness ==
  /\ scan.op = "del" /\ scan.st = "err"
  /\ view.open /\ view.snap[scan.a] = 1
  /\ Contents(MM)[scan.a] = 1


\* The keys of the pairs a scan returned, in the order returned.
ScanKeys == [i \in 1..Len(scan.kv) |-> scan.kv[i].key]

\* ks is in ascending order of bytes.Compare with no key twice.
Ascending(ks) == \A i \in 1..(Len(ks) - 1) : KeyCompare(ks[i], ks[i + 1]) = -1

\* C14: the pairs range(a, b) returns are in ascending order of their keys,
\* no key twice, and every key k returned has a <= k <= b.
C14_RangeSortedInInterval ==
  (scan.op = "range" /\ scan.st = "ok")
    => /\ Ascending(ScanKeys)
       /\ \A i \in 1..Len(scan.kv) :
             /\ KeyCompare(scan.a, ScanKeys[i]) \in {-1, 0}
             /\ KeyCompare(ScanKeys[i], scan.b) \in {-1, 0}


\* C15: range(a, b) returns every pair of the snapshot whose key k has
\* a <= k <= b, with its value; a key equal to a or to b, or sharing its first
\* byte with b, is not left out.
C15_RangeComplete ==
  (scan.op = "range" /\ scan.st = "ok")
    => \A k \in Keys :
          ( /\ view.snap[k] # 0
            /\ KeyCompare(scan.a, k) \in {-1, 0}
            /\ KeyCompare(k, scan.b) \in {-1, 0} )
            => \E i \in 1..Len(scan.kv) :
                  scan.kv[i].key = k /\ scan.kv[i].value = view.snap[k]


\* C16: iterate(k, n) returns at most n pairs, every key returned is >= k,
\* and the keys are in ascending order with no key twice.
C16_IterateSortedBounded ==
  (scan.op = "iterate" /\ scan.st = "ok")
    => /\ Len(scan.kv) <= scan.n
       /\ \A i \in 1..Len(scan.kv) : KeyCompare(scan.a, ScanKeys[i]) \in {-1, 0}
       /\ Ascending(ScanKeys)

JustCompacted == comp.result = "done" /\ comp.pc \in {"unlock", "clearFlag"}

\* C18: compaction preserves the set: the keys and values read before it are
\* the keys and values read after it, no more and no less, and the new file
\* holds them under version 0.
C18_CompactionPreservesSet ==
  JustCompacted
    => /\ Contents(MM) = comp.before.contents
       /\ meta.v = 0
       /\ \A o \in DOMAIN nodes : nodes[o].version = 0

C18_Witness ==
  /\ JustCompacted
  /\ comp.before.meta.v = 2
  /\ Contents(MM)[<<97, 97, 97>>] = 2 /\ Contents(MM)[<<98>>] = 2
  /\ Contents(MM)[<<97>>] = 0
  /\ DOMAIN nodes # DOMAIN comp.before.nodes

\* C19: when a compaction has completed V is 0 and R is InitRootOffset, and
\* the publications that follow count from there: the first publishes
\* version 1 and each later one the version after.
C19_VersionsRestartAfterCompaction ==
  /\ JustCompacted => meta.v = 0 /\ meta.r = InitRootOffset
  /\ \A i \in 1..Len(hist) :
        hist[i].version
          = 1 + Cardinality({j \in 1..(i - 1) : hist[j].epoch = hist[i].epoch})

C19_Witness ==
  /\ Len(hist) = 4
  /\ hist[2].epoch = 0 /\ hist[2].version = 2
  /\ hist[3].epoch = 1 /\ hist[3].version = 1
  /\ hist[4].epoch = 1 /\ hist[4].version = 2
  /\ meta.v = 2

\* C20: when a step of compaction has failed, the temporary file is gone, the
\* file of the store holds what it held before and is still mapped.
C20_FailedCompactionKeepsStore ==
  comp.result = "failed"
    => /\ ~ comp.temp.exists
       /\ comp.old = "kept"
       /\ meta = comp.before.meta /\ nodes = comp.before.nodes
       /\ mapLen > 0


\* The goroutines that are between RLock and RUnlock in UpdateTx.
InsideUpdateTx == {w \in Writers : pc[w] \notin {"idle", "spin", "rlock"}}

\* C26: every way out of UpdateTx gives back the shared access it took, once:
\* the lock counts as many readers as there are goroutines between RLock and
\* RUnlock, so with all of them returned nobody holds it.
C26_ExitReleasesSharedAccess ==
  rwLock.readers = Cardinality(InsideUpdateTx)


\* C23: whoever reads or writes the mapped region holds the lock shared, so
\* nobody does while the resize worker holds it exclusively: no goroutine is
\* between RLock and RUnlock then, and the view transaction neither starts
\* nor reads.
C23_RegionAccessUnderSharedLock ==
  [][ /\ rwLock'.writer => rwLock'.readers = 0
      /\ (view' # view /\ view'.open) => ~ rwLock.writer ]_vars


\* C28: the file is append-only: a step leaves every serialized node as it
\* is, the nodes it adds lie in the range [E, E') of the publisher that writes
\* them, behind every node already in the file, and the ranges of two
\* publications do not overlap.
C28_AppendOnly ==
  [][ /\ \A o \in DOMAIN nodes : o \in DOMAIN nodes' /\ nodes'[o] = nodes[o]
      /\ \A o \in DOMAIN nodes' \ DOMAIN nodes :
            /\ \A q \in DOMAIN nodes : nodes[q].endOffset < o
            /\ \E w \in Writers :
                  /\ pc[w] = "pubWrite"
                  /\ wloc[w].pubE <= o
                  /\ nodes'[o].endOffset < wloc[w].pubE + wloc[w].size
      /\ \A i, j \in 1..Len(hist') : i < j => hist'[i].e <= hist'[j].r ]_vars

C28_Witness ==
  /\ Len(hist) = 2
  /\ hist[1].by # hist[2].by
  /\ hist[1].e = hist[2].r
  /\ \E o \in DOMAIN nodes : o >= hist[2].r

\* ------------------------------------------- resize beside compaction
\* The versions at which the publisher asks for compaction while two
\* goroutines write.
ResizeCompactAts == {1}

\* Two goroutines run UpdateTx while handleResize and compactHandler wait for
\* their signals; no call of the operating system fails.
ResizeInit ==
  /\ FileInit
  /\ ConcIdle
  /\ compactAtVersion \in ResizeCompactAts
  /\ sess = Sess0
  /\ lastOp = NoOp
  /\ ghost = [cur |-> ZeroMap, committed |-> ZeroMap, anyDelete |-> FALSE]

ResizeNext ==
  \/ \E w \in Writers, body \in Bodies : W_Start(w, body)
  \/ \E w \in Writers : W_Spin(w)
  \/ \E w \in Writers : W_RLock(w)
  \/ \E w \in Writers : W_LoadV(w)
  \/ \E w \in Writers : W_Recheck(w)
  \/ \E w \in Writers : W_LoadRoot(w)
  \/ \E w \in Writers : P_CheckResizing(w)
  \/ \E w \in Writers : P_LoadV(w)
  \/ \E w \in Writers : P_LoadR(w)
  \/ \E w \in Writers : P_LoadE(w)
  \/ \E w \in Writers : P_DetermineIfResize(w)
  \/ \E w \in Writers : P_SendResize(w)
  \/ \E w \in Writers : P_Gate(w)
  \/ \E w \in Writers : P_Cas(w)
  \/ \E w \in Writers : P_StoreE(w)
  \/ \E w \in Writers : P_Write(w)
  \/ \E w \in Writers : P_StoreR(w)
  \/ \E w \in Writers : W_ReturnOk(w)
  \/ \E w \in Writers : W_Retry(w)
  \/ R_RequestLock
  \/ R_Lock
  \/ R_Unmap
  \/ R_Remap
  \/ R_ClearFlag
  \/ R_Unlock
  \/ K_TakeFlag
  \/ K_RequestLock
  \/ K_Lock
  \/ K_Build("none")
  \/ K_Close("none")
  \/ K_Rename
  \/ K_Remap("none")
  \/ K_Unlock
  \/ K_ClearFlag

SpecResize == ResizeInit /\ [][ResizeNext]_vars


\* The goroutines that have set isResizing and not cleared it yet: a writer
\* between its compare-and-swap and its send, handleResize from the receive
\* to the deferred store, compactHandler from its compare-and-swap to the
\* deferred store.
FlagHolders ==
  Cardinality({w \in Writers : pc[w] = "pubSend"})
    + (IF resizer.pc \in {"signalled", "waitLock", "locked", "unmapped", "mapped"}
       THEN 1 ELSE 0)
    + (IF comp.pc \in {"flag", "waitLock", "locked", "built", "closed",
                       "renamed", "unlock", "clearFlag"}
       THEN 1 ELSE 0)

\* resizeMmap is between Lock and Unlock.
ResizeRuns == resizer.pc \in {"locked", "unmapped", "mapped", "unlock"}

\* compactHandler is between Lock and Unlock.
CompactionRuns ==
  comp.pc \in {"locked", "built", "closed", "renamed", "unlock"}

\* C24: one resize at a time.  The flag has at most one holder, and is set
\* exactly while it has one; a resize and a compaction never run together; a
\* writer that finds the region short while the flag is taken returns
\* without signalling; the signal that starts a resize comes from the only
\* writer holding the flag, which found its offset beyond the length the map
\* still has; the growth step that follows is one allocateSize step.
C24_OneResizeAtATime ==
  [][ /\ FlagHolders' <= 1
      /\ (isResizing' = 1) <=> (FlagHolders' = 1)
      /\ ~ (ResizeRuns' /\ CompactionRuns')
      /\ \A w \in Writers :
            (pc[w] = "pubFits" /\ pc'[w] = "runlock") => resizer' = resizer
      /\ (resizer.pc = "recv" /\ resizer'.pc = "signalled")
            => \E w \in Writers :
                  /\ pc[w] = "pubSend" /\ pc'[w] = "runlock"
                  /\ mapLen > 0
                  /\ wloc[w].pubE + wloc[w].size >= mapLen
                  /\ \A x \in Writers \ {w} : pc[x] # "pubSend"
      /\ (resizer.pc = "unmapped" /\ resizer'.pc = "mapped")
            => mapLen' = allocateSize(resizer.len) ]_vars

\* Two writers found the region short together: one holds the flag and is
\* about to signal, the other has returned without signalling.
C24_Witness ==
  \E a, b \in Writers :
     /\ a # b
     /\ pc[a] = "pubSend"
     /\ pc[b] = "runlock" /\ wloc[b].why = "extend"
     /\ wloc[a].pubE + wloc[a].size >= mapLen
     /\ isResizing = 1


\* The bytes of the internal node at offset o together with its leaf.
SizeOfNodeAt(o) == nodes[nodes[o].leafOffset].endOffset + 1 - o

\* C27: in every state the root offset is at or behind the first node offset
\* and starts an internal node, the next-free offset lies behind that node
\* and its leaf, and, while the file is mapped, within the mapped length.
C27_MetaWithinFile ==
  /\ meta.r >= InitRootOffset
  /\ meta.r \in DOMAIN nodes /\ nodes[meta.r].kind = "i"
  /\ nodes[meta.r].leafOffset \in DOMAIN nodes
  /\ meta.e >= meta.r + SizeOfNodeAt(meta.r)
  /\ mapLen > 0 => meta.e <= mapLen

\* A publication stands between its store of E and its store of R, in a file
\* that has been compacted and has grown since.
C27_Witness ==
  /\ comp.count > 0
  /\ mapLen > InitialMapSize
  /\ \E w \in Writers :
        /\ pc[w] = "pubWrite"
        /\ meta.e = wloc[w].pubE + wloc[w].size
        /\ meta.r < wloc[w].pubE


\* The index of the i-th set bit of the bitmap, in ascending order (i from 1).
NthSetBit(bitmap, i) ==
  CHOOSE k \in bitmap : Cardinality({j \in bitmap : j < k}) = i - 1

\* The node behind an entry of node's children table: the entry itself when
\* it is a node of the transaction, else the node read at the entry's offset.
ChildBehind(mm, node, child) ==
  IF child.version = node.version /\ child.startOffset = 0
  THEN [st |-> "ok", node |-> child]
  ELSE readINodeFromMemMap(mm, child.startOffset)

RECURSIVE TableConsistent(_, _, _)
\* The internal node reached by the key bytes of path, and every internal
\* node below it, has as many children as its bitmap has set bits, none of
\* them nil, and its i-th child is the one of the i-th set bit: the key in
\* that child's leaf goes through that index.
TableConsistent(mm, node, path) ==
  /\ Len(node.children) = populationCount(node.bitmap)
  /\ \A i \in 1..Len(node.children) :
        LET child == node.children[i]
            below == Append(path, NthSetBit(node.bitmap, i))
            got == ChildBehind(mm, node, child)
        IN /\ ~ IsNil(child)
           /\ got.st = "ok" =>
                /\ got.node.leaf.key # <<>> =>
                     /\ Len(got.node.leaf.key) >= Len(below)
                     /\ SubSeq(got.node.leaf.key, 1, Len(below)) = below
                /\ TableConsistent(mm, got.node, below)

\* C29: in the working tree of the open transaction after each put or delete
\* and in the published version, every internal node has one child per set
\* bit of its bitmap, in ascending order of the indexes.
C29_BitmapMatchesChildren ==
  /\ (sess.open /\ ~ crashed) => TableConsistent(MM, sess.root, <<>>)
  /\ LET rd == readINodeFromMemMap(MM, meta.r) IN
     rd.st = "ok" => TableConsistent(MM, rd.node, <<>>)


RECURSIVE OffsetsConsistent(_)
\* The serialized internal node at offset o and all those below it: the leaf
\* is the serialized leaf that starts at endOffset + 1, which is where the
\* bytes behind the child offsets begin, and every child offset is below the
\* next-free offset and starts a serialized internal node.
OffsetsConsistent(o) ==
  /\ o \in DOMAIN nodes /\ nodes[o].kind = "i"
  /\ LET sn == nodes[o] IN
     /\ sn.leafOffset = sn.endOffset + 1
     /\ sn.leafOffset
          = o + NodeChildrenIdx + Len(sn.children) * NodeChildPtrSize
     /\ sn.leafOffset \in DOMAIN nodes /\ nodes[sn.leafOffset].kind = "l"
     /\ \A i \in 1..Len(sn.children) :
           /\ sn.children[i] < meta.e
           /\ OffsetsConsistent(sn.children[i])

\* C30: the leaf and child offsets of every internal node reachable from the
\* published root are those of the layout.
C30_ReachableOffsetsValid == OffsetsConsistent(meta.r)

\* The published root has a child written behind it by the same transaction
\* and a child of an earlier version in front of it.
C30_Witness ==
  /\ meta.r \in DOMAIN nodes
  /\ \E i, j \in 1..Len(nodes[meta.r].children) :
        /\ nodes[meta.r].children[i] > meta.r
        /\ nodes[meta.r].children[j] < meta.r


\* ----------------------------------------------------------- durability
\* One goroutine runs update transactions on a store that handleFlush syncs
\* when signalled, while the kernel writes dirty pages of the mapping back
\* when it pleases; the store is closed and opened again, or the process
\* halts and the file is opened again.
DurBodies ==
  { <<Put(<<97>>, 1)>>,
    <<Put(<<97, 97>>, 1), Put(<<97, 97, 97>>, 2)>>,
    <<Put(<<98>>, 2)>> }

\* The pages of the longest file the transactions reach: two growth steps.
DurPages == PagesOf(allocateSize(allocateSize(InitialMapSize)))

Least(a, b) == IF a < b THEN a ELSE b

Greatest(a, b) == IF a > b THEN a ELSE b

\* file.Sync() on the mapped image mm: every page is on the device.
Sync(d, mm) ==
  [d EXCEPT !.meta = mm.meta,
            !.hi = [p \in PagesOf(d.len) |-> mm.meta.e],
            !.synced = Contents(mm),
            !.later = {}]

\* resizeMmap between two attempts of the publisher: Sync, Truncate to the
\* new length, mMap.  The new pages hold nothing yet.
SyncAndGrow(d, mm, len) ==
  IF len = d.len THEN d
  ELSE [Sync(d, mm) EXCEPT !.len = len,
                           !.hi = [p \in PagesOf(len) |-> mm.meta.e]]

\* Page p of the mapping holds bytes the device does not: the metadata words
\* differ (page 0), or nodes were written into it since its last write.
Dirty(d, mm, p) ==
  \/ p = 0 /\ d.meta # mm.meta
  \/ Greatest(d.hi[p], p * PageSize) < Least(mm.meta.e, (p + 1) * PageSize)

\* The kernel writes page p of the mapping to the device.
WriteBack(d, mm, p) ==
  [d EXCEPT !.hi[p] = mm.meta.e,
            !.meta = IF p = 0 THEN mm.meta ELSE @]

\* All bytes of the serialized node r lie in bytes the device holds.
Intact(d, r) ==
  \A p \in PagesOf(d.len) :
     (r.startOffset < (p + 1) * PageSize /\ r.endOffset >= p * PageSize)
        => d.hi[p] > r.endOffset

\* The image a mapping of the file on the device shows: its metadata words
\* and the nodes below the next-free offset whose bytes it holds.
OnDevice(d, all) ==
  [len |-> d.len, meta |-> d.meta,
   nodes |-> [o \in {q \in DOMAIN all : q < d.meta.e /\ Intact(d, all[q])}
                |-> all[o]]]

\* The image of a file initialised by resizeMmap, initRoot and initMeta.
FreshImage == [len |-> InitialMapSize, meta |-> InitMeta, nodes |-> InitNodes]

\* An initializeFile that initialises the file whatever its size.
initializeFileAnew(fSize, img) == FreshImage

\* initializeFile: a file of size 0 is resized and given the initial root and
\* metadata; any other file is mapped as it is.
initializeFile(fSize, img) == IF fSize = 0 THEN FreshImage ELSE img

DurInit ==
  /\ FileInit
  /\ ConcIdle
  /\ compactAtVersion = MaxDurTx + 1
  /\ sess = Sess0
  /\ lastOp = NoOp
  /\ ghost = [cur |-> ZeroMap, committed |-> ZeroMap, anyDelete |-> FALSE]

durFrame == <<isResizing, trieVars, compactAtVersion, scan, comp, util, concVars>>

\* A whole UpdateTx: the resizes the path needs, the publication and
\* signalFlush, whose send succeeds only while handleFlush waits.
D_Update(body) ==
  /\ ~ crashed /\ disk.pc = "open" /\ disk.n < MaxDurTx
  /\ LET res == UpdateTxAlone(MM, body)
         grown == SyncAndGrow(disk, MM, res.mm.len)
     IN /\ crashed' = (res.st = "panic")
        /\ meta' = res.mm.meta
        /\ nodes' = res.mm.nodes
        /\ mapLen' = res.mm.len
        /\ disk' = IF res.st # "ok" THEN disk
                   ELSE [grown EXCEPT !.later = @ \cup {Contents(res.mm)},
                                      !.n = @ + 1,
                                      !.flusher = "signalled",
                                      !.how = "running"]
  /\ UNCHANGED durFrame

\* handleFlush: file.Sync() under the shared lock.
F_Sync ==
  /\ ~ crashed /\ disk.pc = "open" /\ disk.flusher = "signalled"
  /\ isResizing = 0
  /\ disk' = [Sync(disk, MM) EXCEPT !.flusher = "recv"]
  /\ UNCHANGED <<meta, nodes, mapLen, crashed, durFrame>>

\* The kernel writes a dirty page of the shared mapping to the device.
D_WriteBack(p) ==
  /\ ~ crashed /\ disk.pc = "open" /\ p \in PagesOf(disk.len)
  /\ Dirty(disk, MM, p)
  /\ disk' = WriteBack(disk, MM, p)
  /\ UNCHANGED <<meta, nodes, mapLen, crashed, durFrame>>

\* Close: file.Sync(), munmap, file.Close().
D_Close ==
  /\ ~ crashed /\ disk.pc = "open"
  /\ disk' = [Sync(disk, MM) EXCEPT
                !.pc = "closed",
                !.how = "down",
                !.closed = [meta |-> meta, nodes |-> nodes,
                            contents |-> Contents(MM)]]
  /\ mapLen' = 0
  /\ UNCHANGED <<meta, nodes, crashed, durFrame>>

\* The process halts: the mapping is gone, the device keeps what it holds.
D_Halt ==
  /\ ~ crashed /\ disk.pc = "open"
  /\ disk' = [disk EXCEPT !.pc = "halted", !.how = "down"]
  /\ mapLen' = 0
  /\ UNCHANGED <<meta, nodes, crashed, durFrame>>

\* Open on the file left by Close or by a halt: initializeFile maps what the
\* device holds; handleFlush is started anew.  After a halt the count of
\* versions starts again from what the file shows.
D_Open ==
  /\ ~ crashed /\ disk.pc \in {"closed", "halted"}
  /\ LET img == initializeFile(disk.len, OnDevice(disk, nodes))
         seen == Contents(img)
     IN /\ meta' = img.meta
        /\ nodes' = img.nodes
        /\ mapLen' = img.len
        /\ disk' = [disk EXCEPT
                      !.pc = "open",
                      !.flusher = "recv",
                      !.how = IF disk.pc = "closed" THEN "reopened" ELSE "recovered",
                      !.meta = img.meta,
                      !.hi = [p \in PagesOf(img.len) |-> img.meta.e],
                      !.was = {disk.synced} \cup disk.later,
                      !.synced = seen,
                      !.later = {},
                      !.n = IF disk.pc = "closed" THEN @ ELSE Least(img.meta.v, @)]
  /\ UNCHANGED <<crashed, durFrame>>

DurNext ==
  \/ \E body \in DurBodies : D_Update(body)
  \/ F_Sync
  \/ \E p \in DurPages : D_WriteBack(p)
  \/ D_Close
  \/ D_Halt
  \/ D_Open

SpecDur == DurInit /\ [][DurNext]_vars

\* C21: after Close and Open of the same file the metadata words are those
\* of the Close, V is the number of the last published version, the nodes
\* are those the store held at the Close, and a get of every key returns
\* what it returned before the Close.
C21_ReopenKeepsStore ==
  disk.how = "reopened"
    => /\ mapLen = disk.len
       /\ meta = disk.closed.meta
       /\ meta.v = disk.n
       /\ nodes = disk.closed.nodes
       /\ Contents(MM) = disk.closed.contents

\* A store that holds two published versions has been closed and opened.
C21_Witness ==
  /\ disk.how = "reopened"
  /\ meta.v = MaxDurTx
  /\ \E k \in Keys : Contents(MM)[k] > 0

\* C22: after a halt, Open shows the version of the last Sync or one
\* published since: a view reads what it read of one of those versions.
C22_RecoveryShowsAVersion ==
  disk.how = "recovered" => Contents(MM) \in disk.was


\* ------------------------------------------------------------ progress
\* The steps of a goroutine inside UpdateTx, of handleResize and of
\* compactHandler.  A goroutine that can take its next step takes it in the
\* end: the Go scheduler runs every runnable goroutine, a spinning one
\* yields with Gosched, and an RWMutex lets a waiting locker in once the
\* holders have left.  Whether UpdateTx is called again is up to the caller.
\* The steps that run a whole traversal (the body of the transaction, the
\* build of the compacted copy) are named apart, with the condition under
\* which they can be taken.
WriterStep(w) ==
  \/ W_Spin(w) \/ W_RLock(w) \/ W_LoadV(w) \/ W_Recheck(w)
  \/ P_CheckResizing(w) \/ P_LoadV(w) \/ P_LoadR(w) \/ P_LoadE(w)
  \/ P_DetermineIfResize(w) \/ P_SendResize(w) \/ P_Gate(w) \/ P_Cas(w)
  \/ P_StoreE(w) \/ P_Write(w) \/ P_StoreR(w) \/ W_ReturnOk(w) \/ W_Retry(w)

\* The goroutine is about to load the root and run the body.
BodyReady(w) == ~ crashed /\ pc[w] = "loadRoot"

ResizerStep ==
  R_RequestLock \/ R_Lock \/ R_Unmap \/ R_Remap \/ R_ClearFlag \/ R_Unlock

CompactorStep ==
  \/ K_TakeFlag \/ K_RequestLock \/ K_Lock
  \/ \E fault \in {"none"} \cup CloseFaults : K_Close(fault)
  \/ K_Rename
  \/ \E fault \in {"none"} \cup RemapFaults : K_Remap(fault)
  \/ K_Unlock \/ K_ClearFlag

\* compactHandler holds the lock and is about to build the compacted copy.
BuildReady == ~ crashed /\ comp.pc = "locked"

BuildStep == \E fault \in {"none"} \cup BuildFaults : K_Build(fault)

\* Update transactions called while progress is watched.
MaxLiveTx == 2

\* The transactions called while progress is watched: none returns an error.
LiveBodies == { <<Put(<<97>>, 1)>>, <<Put(<<98>>, 2)>> }

\* The version at which the publisher asks for compaction.
LiveCompactAts == {1}

\* The goroutines that call UpdateTx while progress is watched.
LiveWriters == Writers

LiveInit ==
  /\ FileInit
  /\ ConcIdle
  /\ compactAtVersion \in LiveCompactAts
  /\ sess = Sess0
  /\ lastOp = NoOp
  /\ ghost = [cur |-> ZeroMap, committed |-> ZeroMap, anyDelete |-> FALSE]

\* A goroutine calls UpdateTx with one of the bodies.
L_Start(w, body) ==
  /\ ~ crashed /\ pc[w] = "idle" /\ TxCalls(Writers) < MaxLiveTx
  /\ Goto(w, "spin")
  /\ SetLoc(w, [Loc0 EXCEPT !.body = body, !.done = wloc[w].done])
  /\ UNCHANGED <<fileVars, crashed, trieVars, cfgVars, rwLock, resizer,
                 view, hist>>

LiveNext ==
  \/ \E w \in LiveWriters, body \in LiveBodies : L_Start(w, body)
  \/ \E w \in LiveWriters : W_Spin(w)
  \/ \E w \in LiveWriters : W_RLock(w)
  \/ \E w \in LiveWriters : W_LoadV(w)
  \/ \E w \in LiveWriters : W_Recheck(w)
  \/ \E w \in LiveWriters : W_LoadRoot(w)
  \/ \E w \in LiveWriters : P_CheckResizing(w)
  \/ \E w \in LiveWriters : P_LoadV(w)
  \/ \E w \in LiveWriters : P_LoadR(w)
  \/ \E w \in LiveWriters : P_LoadE(w)
  \/ \E w \in LiveWriters : P_DetermineIfResize(w)
  \/ \E w \in LiveWriters : P_SendResize(w)
  \/ \E w \in LiveWriters : P_Gate(w)
  \/ \E w \in LiveWriters : P_Cas(w)
  \/ \E w \in LiveWriters : P_StoreE(w)
  \/ \E w \in LiveWriters : P_Write(w)
  \/ \E w \in LiveWriters : P_StoreR(w)
  \/ \E w \in LiveWriters : W_ReturnOk(w)
  \/ \E w \in LiveWriters : W_Retry(w)
  \/ R_RequestLock
  \/ R_Lock
  \/ R_Unmap
  \/ R_Remap
  \/ R_ClearFlag
  \/ R_Unlock
  \/ K_TakeFlag
  \/ K_RequestLock
  \/ K_Lock
  \/ \E f \in {"none"} \cup BuildFaults : K_Build(f)
  \/ \E f \in {"none"} \cup CloseFaults : K_Close(f)
  \/ K_Rename
  \/ \E f \in {"none"} \cup RemapFaults : K_Remap(f)
  \/ K_Unlock
  \/ K_ClearFlag

SpecLive ==
  /\ LiveInit
  /\ [][LiveNext]_vars
  /\ \A w \in LiveWriters : WF_vars(WriterStep(w))
  /\ \A w \in LiveWriters :
       []<>(~ BodyReady(w)) \/ []<><<W_LoadRoot(w)>>_vars
  /\ WF_vars(ResizerStep)
  /\ WF_vars(CompactorStep)
  /\ []<>(~ BuildReady) \/ []<><<BuildStep>>_vars

\* C25: every call of UpdateTx whose body returns no error publishes and
\* returns nil in the end: the n-th call of a goroutine, once started, leads
\* to the goroutine being back with n + 1 calls done and no error.
C25_EveryCallPublishes ==
  \A w \in LiveWriters : \A n \in 0..(MaxLiveTx - 1) :
     (pc[w] = "spin" /\ wloc[w].done = n)
        ~> (pc[w] = "idle" /\ wloc[w].done = n + 1 /\ wloc[w].why = "none")

\* ------------------------------------------------------- bitmap utilities
\* The indices the utilities are called with: the first and the last bit of
\* words 0 and 1 and one bit of every later word.
BitIndices == {0, 31, 32, 63, 64, 97, 128, 160, 192, 255}

BitsInit ==
  /\ FileInit
  /\ ConcIdle
  /\ compactAtVersion = 0
  /\ sess = Sess0
  /\ lastOp = NoOp
  /\ ghost = [cur |-> ZeroMap, committed |-> ZeroMap, anyDelete |-> FALSE]

bitsFrame ==
  <<fileVars, crashed, trieVars, concVars, compactAtVersion, scan, comp, disk>>

\* setBit(bitmap, index) on the bitmap built so far.
U_SetBit(index) ==
  /\ util' = [util EXCEPT !.bitmap = setBit(util.bitmap, index),
                          !.called = FALSE]
  /\ UNCHANGED bitsFrame

\* getPosition(bitmap, index, level).
U_GetPosition(index) ==
  /\ util' = [util EXCEPT !.index = index,
                          !.pos = getPosition(util.bitmap, index),
                          !.called = TRUE]
  /\ UNCHANGED bitsFrame

BitsNext ==
  \/ \E index \in BitIndices : U_SetBit(index)
  \/ \E index \in BitIndices : U_GetPosition(index)

SpecBits == BitsInit /\ [][BitsNext]_vars

\* C31: the dense position getPosition returns for a bitmap and an index is
\* the number of set bits of the bitmap at indices strictly less than the
\* index.
C31_PositionCountsLowerBits ==
  util.called
    => util.pos = Cardinality({i \in util.bitmap : i < util.index})

\* ------------------------------------------- a copy that fails: rollback
\* The byte copy of a publisher fails when the region was unmapped between
\* determineIfResize and writeNodesToMemMap.  Resize and compaction unmap
\* under the exclusive lock, which a publisher's shared lock keeps out; Close
\* takes no lock.
UndoInit ==
  /\ FileInit
  /\ ConcIdle
  /\ compactAtVersion = MaxLiveTx + 1
  /\ sess = Sess0
  /\ lastOp = NoOp
  /\ ghost = [cur |-> ZeroMap, committed |-> ZeroMap, anyDelete |-> FALSE]

\* Close, called by the caller's goroutine while handleResize is idle:
\* opened is cleared, the file is synced and unmapped (data becomes the empty
\* map).  The pointers the goroutines inside UpdateTx hold into the old
\* mapping dangle from here on.
X_Close ==
  /\ ~ crashed /\ comp.opened
  /\ resizer.pc = "recv" /\ \A w \in Writers : pc[w] # "pubSend"
  /\ comp' = [comp EXCEPT !.opened = FALSE]
  /\ mapLen' = 0
  /\ UNCHANGED <<meta, nodes, isResizing, crashed, trieVars, compactAtVersion,
                 disk, util, scan, concVars>>

\* The step of UpdateTx or exclusiveWriteMmap that loads, swaps or stores a
\* metadata word through the pointer it holds.
ThroughPointer == {"recheck", "pubCas", "pubStoreE", "pubStoreR"}

\* Such a step on an unmapped region: the address is no longer mapped, the
\* fault is fatal.
X_Fault(w) ==
  /\ ~ crashed /\ pc[w] \in ThroughPointer /\ mapLen = 0
  /\ crashed' = TRUE
  /\ UNCHANGED <<fileVars, trieVars, cfgVars, concVars>>

\* The steps through a pointer while the region is mapped.
U_Recheck(w) == mapLen # 0 /\ W_Recheck(w)

U_Cas(w) == mapLen # 0 /\ P_Cas(w)

U_StoreE(w) == mapLen # 0 /\ P_StoreE(w)

U_StoreR(w) == mapLen # 0 /\ P_StoreR(w)

UndoNext ==
  \/ \E w \in Writers, body \in LiveBodies : L_Start(w, body)
  \/ \E w \in Writers : W_Spin(w)
  \/ \E w \in Writers : W_RLock(w)
  \/ \E w \in Writers : W_LoadV(w)
  \/ \E w \in Writers : U_Recheck(w)
  \/ \E w \in Writers : W_LoadRoot(w)
  \/ \E w \in Writers : P_CheckResizing(w)
  \/ \E w \in Writers : P_LoadV(w)
  \/ \E w \in Writers : P_LoadR(w)
  \/ \E w \in Writers : P_LoadE(w)
  \/ \E w \in Writers : P_DetermineIfResize(w)
  \/ \E w \in Writers : P_SendResize(w)
  \/ \E w \in Writers : P_Gate(w)
  \/ \E w \in Writers : U_Cas(w)
  \/ \E w \in Writers : U_StoreE(w)
  \/ \E w \in Writers : P_Write(w)
  \/ \E w \in Writers : U_StoreR(w)
  \/ \E w \in Writers : W_ReturnOk(w)
  \/ \E w \in Writers : W_Retry(w)
  \/ \E w \in Writers : X_Fault(w)
  \/ X_Close
  \/ R_RequestLock
  \/ R_Lock
  \/ R_Unmap
  \/ R_Remap
  \/ R_ClearFlag
  \/ R_Unlock

SpecUndo == UndoInit /\ [][UndoNext]_vars

\* The publisher's copy has failed and it is putting the words back.
RollingBack(w) == pc[w] \in {"undoE", "undoV", "undoR"}

\* C32: a publisher whose byte copy failed after its version CAS succeeded
\* stores back the three metadata words and reports failure: each step of
\* its rollback leaves the program running, and when the rollback is done
\* version, root offset and next-free offset are the values the publisher
\* observed before its CAS.
C32_CopyFailureRollsBack ==
  [][\A w \in Writers :
       (RollingBack(w) /\ P_Write(w))
         => /\ ~ crashed'
            /\ pc'[w] = "unlockErr"
                 => /\ meta' = [v |-> wloc[w].pubV, r |-> wloc[w].pubR,
                                e |-> wloc[w].pubE]
                    /\ wloc'[w].why = "write"]_vars

\* --------------------------------------------- signals to the workers
\* signalFlush: the send on the unbuffered channel succeeds only while
\* handleFlush waits at the channel; otherwise the default case is taken.
signalFlush(d) ==
  IF d.flusher = "recv" THEN [d EXCEPT !.flusher = "signalled"] ELSE d

\* A publisher whose signalFlush waits until handleFlush takes the signal.
Q_ReturnOkWaiting(w) ==
  /\ ~ crashed /\ pc[w] = "unlockOk" /\ disk.flusher = "recv"
  /\ disk' = signalFlush(disk)
  /\ rwLock' = [rwLock EXCEPT !.readers = @ - 1]
  /\ Goto(w, "idle")
  /\ SetLoc(w, [wloc[w] EXCEPT !.done = @ + 1, !.root = NilINode, !.recs = {},
                               !.size = 0])
  /\ UNCHANGED <<fileVars, crashed, trieVars, compactAtVersion, util, scan,
                 comp, resizer, view, hist>>

\* signalFlush, return true; UpdateTx unlocks and returns nil.
Q_ReturnOk(w) ==
  /\ ~ crashed /\ pc[w] = "unlockOk"
  /\ disk' = signalFlush(disk)
  /\ rwLock' = [rwLock EXCEPT !.readers = @ - 1]
  /\ Goto(w, "idle")
  /\ SetLoc(w, [wloc[w] EXCEPT !.done = @ + 1, !.root = NilINode, !.recs = {},
                               !.size = 0])
  /\ UNCHANGED <<fileVars, crashed, trieVars, compactAtVersion, util, scan,
                 comp, resizer, view, hist>>

flushFrame ==
  <<fileVars, crashed, trieVars, compactAtVersion, util, scan, comp, pc, wloc,
    resizer, view, hist>>

\* handleFlush: for atomic.LoadUint32(&isResizing) == 1 { runtime.Gosched() }
H_Spin ==
  /\ ~ crashed /\ disk.flusher = "signalled" /\ isResizing = 0
  /\ disk' = [disk EXCEPT !.flusher = "rlock"]
  /\ UNCHANGED <<flushFrame, rwLock>>

\* rwResizeLock.RLock()
H_RLock ==
  /\ ~ crashed /\ disk.flusher = "rlock"
  /\ ~ rwLock.writer /\ ~ rwLock.pending
  /\ rwLock' = [rwLock EXCEPT !.readers = @ + 1]
  /\ disk' = [disk EXCEPT !.flusher = "sync"]
  /\ UNCHANGED flushFrame

\* file.Sync(): what is mapped and written goes to the device.
H_Sync ==
  /\ ~ crashed /\ disk.flusher = "sync"
  /\ disk' = [Sync(disk, MM) EXCEPT !.flusher = "runlock"]
  /\ UNCHANGED <<flushFrame, rwLock>>

\* The deferred RUnlock; back to the channel.
H_RUnlock ==
  /\ ~ crashed /\ disk.flusher = "runlock"
  /\ rwLock' = [rwLock EXCEPT !.readers = @ - 1]
  /\ disk' = [disk EXCEPT !.flusher = "recv"]
  /\ UNCHANGED flushFrame

SignalInit ==
  /\ FileInit
  /\ ConcIdle
  /\ compactAtVersion = MaxLiveTx + 1
  /\ sess = Sess0
  /\ lastOp = NoOp
  /\ ghost = [cur |-> ZeroMap, committed |-> ZeroMap, anyDelete |-> FALSE]

SignalNext ==
  \/ \E w \in Writers, body \in LiveBodies : L_Start(w, body)
  \/ \E w \in Writers : W_Spin(w)
  \/ \E w \in Writers : W_RLock(w)
  \/ \E w \in Writers : W_LoadV(w)
  \/ \E w \in Writers : W_Recheck(w)
  \/ \E w \in Writers : W_LoadRoot(w)
  \/ \E w \in Writers : P_CheckResizing(w)
  \/ \E w \in Writers : P_LoadV(w)
  \/ \E w \in Writers : P_LoadR(w)
  \/ \E w \in Writers : P_LoadE(w)
  \/ \E w \in Writers : P_DetermineIfResize(w)
  \/ \E w \in Writers : P_SendResize(w)
  \/ \E w \in Writers : P_Gate(w)
  \/ \E w \in Writers : P_Cas(w)
  \/ \E w \in Writers : P_StoreE(w)
  \/ \E w \in Writers : P_Write(w)
  \/ \E w \in Writers : P_StoreR(w)
  \/ \E w \in Writers : Q_ReturnOk(w)
  \/ \E w \in Writers : W_Retry(w)
  \/ R_RequestLock
  \/ R_Lock
  \/ R_Unmap
  \/ R_Remap
  \/ R_ClearFlag
  \/ R_Unlock
  \/ H_Spin
  \/ H_RLock
  \/ H_Sync
  \/ H_RUnlock

SpecSignal == SignalInit /\ [][SignalNext]_vars

G_Update(body) ==
  /\ ~ crashed /\ disk.pc = "open" /\ disk.n < MaxDurTx
  /\ LET res == UpdateTxAlone(MM, body)
         grown == SyncAndGrow(disk, MM, res.mm.len)
     IN /\ crashed' = (res.st = "panic")
        /\ meta' = res.mm.meta
        /\ nodes' = res.mm.nodes
        /\ mapLen' = res.mm.len
        /\ disk' = IF res.st # "ok" THEN disk
                   ELSE [signalFlush(grown) EXCEPT
                           !.later = @ \cup {Contents(res.mm)},
                           !.n = @ + 1,
                           !.how = "running"]
  /\ UNCHANGED durFrame

FlushNext ==
  \/ \E body \in DurBodies : G_Update(body)
  \/ H_Spin
  \/ H_RLock
  \/ H_Sync
  \/ H_RUnlock
  \/ \E p \in DurPages : D_WriteBack(p)

\* handleFlush runs whenever it can; whether UpdateTx is called again, and
\* when the kernel writes a page back, is not up to the store.
FlusherStep == H_Spin \/ H_RLock \/ H_RUnlock

\* handleFlush holds the shared lock and is about to call file.Sync().
SyncReady == ~ crashed /\ disk.flusher = "sync"

SpecFlush ==
  /\ DurInit
  /\ [][FlushNext]_vars
  /\ WF_vars(FlusherStep)
  /\ []<>(~ SyncReady) \/ []<><<H_Sync>>_vars

\* C34: every publication is flushed by handleFlush in the end, without a
\* further publication and without a Close: once version n is published, a
\* file.Sync() of handleFlush follows, after which the device holds every
\* version published so far.
C34_PublicationGetsFlushed ==
  \A n \in 1..MaxDurTx : (disk.n = n) ~> (disk.later = {})

\* ------------------------------------------------- the rename sequence
\* swapTempFileWithMari renames in three calls, whose errors are not read.
\* os.Rename(currFileName, swapFileName): the file of the store now goes by
\* the swap name and no file goes by the name of the store.
K_RenameToSwap ==
  /\ ~ crashed /\ comp.pc = "closed"
  /\ comp' = [comp EXCEPT !.pc = "swapped", !.old = "swap"]
  /\ UNCHANGED <<fileVars, crashed, trieVars, compactAtVersion, disk, util,
                 scan, concVars>>

\* os.Rename(tempFileName, currFileName): the compacted copy takes the name
\* of the store.
K_RenameTemp ==
  /\ ~ crashed /\ comp.pc = "swapped"
  /\ comp' = [comp EXCEPT !.pc = "named", !.temp.exists = FALSE]
  /\ UNCHANGED <<fileVars, crashed, trieVars, compactAtVersion, disk, util,
                 scan, concVars>>

\* os.Remove(swapFileName)
K_RemoveSwap ==
  /\ ~ crashed /\ comp.pc = "named"
  /\ comp' = [comp EXCEPT !.pc = "renamed", !.old = "removed"]
  /\ UNCHANGED <<fileVars, crashed, trieVars, compactAtVersion, disk, util,
                 scan, concVars>>

SwapNext ==
  \/ \E w \in CompactWriters, body \in LiveBodies : L_Start(w, body)
  \/ \E w \in CompactWriters : W_Spin(w)
  \/ \E w \in CompactWriters : W_RLock(w)
  \/ \E w \in CompactWriters : W_LoadV(w)
  \/ \E w \in CompactWriters : W_Recheck(w)
  \/ \E w \in CompactWriters : W_LoadRoot(w)
  \/ \E w \in CompactWriters : P_CheckResizing(w)
  \/ \E w \in CompactWriters : P_LoadV(w)
  \/ \E w \in CompactWriters : P_LoadR(w)
  \/ \E w \in CompactWriters : P_LoadE(w)
  \/ \E w \in CompactWriters : P_DetermineIfResize(w)
  \/ \E w \in CompactWriters : P_SendResize(w)
  \/ \E w \in CompactWriters : P_Gate(w)
  \/ \E w \in CompactWriters : P_Cas(w)
  \/ \E w \in CompactWriters : P_StoreE(w)
  \/ \E w \in CompactWriters : P_Write(w)
  \/ \E w \in CompactWriters : P_StoreR(w)
  \/ \E w \in CompactWriters : W_ReturnOk(w)
  \/ \E w \in CompactWriters : W_Retry(w)
  \/ R_RequestLock
  \/ R_Lock
  \/ R_Unmap
  \/ R_Remap
  \/ R_ClearFlag
  \/ R_Unlock
  \/ K_TakeFlag
  \/ K_RequestLock
  \/ K_Lock
  \/ \E f \in {"none"} \cup BuildFaults : K_Build(f)
  \/ \E f \in {"none"} \cup CloseFaults : K_Close(f)
  \/ K_RenameToSwap
  \/ K_RenameTemp
  \/ K_RemoveSwap
  \/ \E f \in {"none"} \cup RemapFaults : K_Remap(f)
  \/ K_Unlock
  \/ K_ClearFlag

SpecSwap == LiveInit /\ [][SwapNext]_vars

\* The files that go by the name of the store: the file compactHandler
\* found, until it is renamed, and the compacted copy once it is renamed.
FilesUnderName ==
  IF comp.old = "kept" THEN 1 ELSE IF comp.pc = "swapped" THEN 0 ELSE 1

\* A file goes by the swap name.
SwapExists == comp.old = "swap"

\* C35: during compaction exactly one file goes by the name of the store at
\* each instant, and a file goes by the swap name only inside the rename
\* sequence: it is removed before compactHandler unlocks.
C35_OneLiveFile ==
  /\ FilesUnderName = 1
  /\ SwapExists => comp.pc \in {"swapped", "named"}

\* ------------------------------------------------ the compaction trigger
\* C36: the compaction trigger is evaluated after a successful publish: no
\* attempt to publish is refused because the trigger fires, and compactHandler
\* is signalled only by a writer that has just stored its root offset.
C36_TriggerAfterPublish ==
  [][/\ \A w \in Writers : wloc'[w].why # "compact"
     /\ (comp.pc = "recv" /\ comp'.pc = "signalled")
          => \E w \in Writers :
                pc[w] \in {"pubStoreR", "unlockOk"} /\ pc'[w] # pc[w]]_vars

\* ------------------------------------------- the version word and the root
\* The version field of the root node at the published root offset.
PublishedRootVersion == readINodeFromMemMap(MM, meta.r).node.version

\* C37: while the file is mapped and no publisher stands between its swap of
\* the version word and its store of the root offset, V is the version of the
\* root node at R; the goroutine that alone calls UpdateTx passes the test
\* V = path version - 1 whenever its publisher comes to it.
C37_VersionIsRootVersion ==
  /\ (mapLen > 0 /\ InFlight = {}) => meta.v = PublishedRootVersion
  /\ \A w \in CompactWriters :
        pc[w] = "pubCas" => VersionMatches(wloc[w].pubV, wloc[w].root.version)

C37_Witness ==
  /\ comp.count = 1 /\ mapLen > 0
  /\ hist # <<>> /\ hist[Len(hist)].epoch = 1 /\ meta.v = 1
  /\ \E w \in Writers : pc[w] = "pubCas" /\ wloc[w].pubV = 1
                        /\ wloc[w].root.version = 2

\* ------------------------------------------------ the flag is given back
\* A goroutine calls UpdateTx with the body that puts a key and then returns
\* an error: UpdateTx returns the error with the shared lock still held.
E_Start(w) ==
  /\ ~ crashed /\ pc[w] = "idle" /\ TxCalls(Writers) < MaxLiveTx
  /\ Goto(w, "spin")
  /\ SetLoc(w, [Loc0 EXCEPT !.body = <<Put(<<98>>, 1), Fail>>,
                            !.done = wloc[w].done])
  /\ UNCHANGED <<fileVars, crashed, trieVars, cfgVars, rwLock, resizer,
                 view, hist>>

StallNext ==
  \/ \E w \in LiveWriters : E_Start(w)
  \/ LiveNext

\* Writers, handleResize and compactHandler under fair scheduling, with
\* bodies that return an error among the calls.
SpecStall ==
  /\ LiveInit
  /\ [][StallNext]_vars
  /\ \A w \in LiveWriters : WF_vars(WriterStep(w))
  /\ \A w \in LiveWriters :
       []<>(~ BodyReady(w)) \/ []<><<W_LoadRoot(w)>>_vars
  /\ WF_vars(ResizerStep)
  /\ WF_vars(CompactorStep)
  /\ []<>(~ BuildReady) \/ []<><<BuildStep>>_vars

\* C38: whenever isResizing is set, by a writer short of room or by
\* compactHandler, it is cleared again in the end.
C38_FlagEventuallyCleared == (isResizing = 1) ~> (isResizing = 0)

\* ------------------------------------------------- what a resize changes
\* resizeMmap is between Lock and Unlock.
ResizeHolds == resizer.pc \in {"locked", "unmapped", "mapped", "unlock"}

\* C39: while resizeMmap holds the lock the metadata words and the bytes of
\* the file stay as they are, the length mapped by a resize is greater than
\* the length unmapped, and, as long as no call of compactHandler fails, a
\* call refused for lack of room publishes in a later attempt.
C39_ResizeOnlyGrows ==
  /\ [][/\ ResizeHolds => (meta' = meta /\ nodes' = nodes)
        /\ (resizer.pc = "unmapped" /\ resizer'.pc = "mapped")
             => mapLen' > resizer.len]_vars
  /\ [](comp.faults = 0)
       => \A w \in LiveWriters : \A n \in 0..(MaxLiveTx - 1) :
             (pc[w] = "runlock" /\ wloc[w].why = "extend" /\ wloc[w].done = n)
                ~> (pc[w] = "unlockOk" /\ wloc[w].done = n)

C39_Witness ==
  /\ comp.faults = 0 /\ resizer.pc = "recv"
  /\ mapLen = allocateSize(InitialMapSize)
  /\ \E w \in LiveWriters :
        pc[w] = "unlockOk" /\ hist # <<>> /\ hist[Len(hist)].by = w

\* ------------------------------------------ the store after a compaction
\* C40: when compactHandler has swapped the files the store is open: the
\* compacted file is mapped and the store counts as opened, so that the
\* next Close is not skipped.
C40_OpenAfterCompaction ==
  comp.result = "done" => (mapLen > 0 /\ comp.opened)

====
